---------------------------- MODULE Spec2Model ----------------------------
(***************************************************************************)
(* A model of the MIDAS engine (Programs/Python/MIDAS/engine.py): the      *)
(* registration of agent groups and the serialisation of their parameters  *)
(* (Engine.add_group, Groups.param_RIPO), the step scheduler with its two  *)
(* buffer pairs (Engine.run, Engine.step) and the kernel CUDA_step with    *)
(* its device functions relative_2d and assign_2d, one thread per agent.   *)
(*                                                                         *)
(* Numbers.  The engine computes on float32; the model computes on a       *)
(* lattice: lengths, coordinates, speeds, radii and coefficients are       *)
(* integers, headings are integers counting quarter turns (pi/2), so that  *)
(* cmath.rect, the rotation into the observer frame, abs(z) against a      *)
(* radius and the angular slice of an offset are all exact.  Array indices *)
(* are those of the code (0-based) and are shifted by one where a TLA+     *)
(* sequence is indexed.  The engine is two-dimensional (Engine.__init__,   *)
(* dimension=2; the kernel integrates only `case 2`).                      *)
(***************************************************************************)
EXTENDS Integers, Sequences, FiniteSets, TLC

VARIABLES
  geom,         \* Engine.geom: arena, arena_shape, periodic
  agents,       \* Engine.agents: N, atype, pos, vel, param, group
  groups,       \* Engine.groups: N, names, atype, param, l_nR, l_nZ, l_nCaf, l_nI
  local_param,  \* the local `param` of the last param_RIPO call, as line 280 leaves it
  calls,        \* history: the add_group calls made so far, in order
  steps,        \* Engine.steps: <<n>> for the number n, <<>> for None
  storage,      \* the steps handed to Storage.insert_step, in order
  cuda,         \* the device arrays of Engine.cuda (p0, v0, p1, v1, ...)
  launch,       \* the kernel launch in flight or last completed: its buffers
  thread,       \* per agent: the position and the locals of its kernel thread
  rng,          \* per thread: the normal draws its generator state yields
  pc,           \* where the host is: setup, run's loop, waiting in synchronize
  step_i,       \* run's loop variable `step`
  args,         \* a direct call of a function of the program: its name and arguments
  result        \* what that call returned

vars == <<geom, agents, groups, local_param, calls, steps, storage, cuda,
          launch, thread, rng, pc, step_i, args, result>>

(***************************************************************************)
(* Bounds of the model.                                                    *)
(***************************************************************************)
MaxCalls == 2
MaxGroupSize == 2
HalfExtent == 2
MaxSteps == 3

(***************************************************************************)
(* Enumerations (enums.py) and the dimension.                              *)
(***************************************************************************)
dimension == 2
Arena_CIRCULAR == 0
Arena_RECTANGULAR == 1
Agent_FIXED == 0
Agent_RIPO == 1
Perception_PRESENCE == 0
Perception_ORIENTATION == 1
Perception_FIELD == 2
Normalization_NONE == 0
Normalization_SAME_RADIUS == 1
Normalization_SAME_SLICE == 2
Normalization_SAME_GROUP == 3
Normalization_ALL == 4
Default_vmin == 0
Default_vmax == 1
Default_nSa == 4
\* engine.py names Output.REORIENTATION, Output.SPEED_MODULATION,
\* Activation.ANGLE and Activation.SPEED; enums.py gives the two actions
\* their numbers (class Action) and no number to the two activations, which
\* the model numbers 1 and 2 (any two distinct values >= 0 behave alike:
\* the kernel only compares them, and its "no output" mark is -1).
Output_SPEED_MODULATION == 0
Output_REORIENTATION == 1
Activation_ANGLE == 1
Activation_SPEED == 2

(***************************************************************************)
(* Sequence helpers standing for numpy operations.                         *)
(***************************************************************************)
\* v*np.ones(n)
Ones(n, v) == [k \in 1..n |-> v]

\* np.pad(row, (0, n)): n trailing zeros
PadRow(row, n) == row \o Ones(n, 0)

\* np.sort
np_sort(s) == SortSeq(s, LAMBDA a, b : a < b)

RECURSIVE Flatten(_)
\* the concatenation of a sequence of sequences
Flatten(ss) == IF ss = <<>> THEN <<>> ELSE Head(ss) \o Flatten(Tail(ss))

RECURSIVE SumSeq(_)
SumSeq(s) == IF s = <<>> THEN 0 ELSE Head(s) + SumSeq(Tail(s))

\* list.index(x): the first index (0-based) holding x
IndexOf(s, x) == (CHOOSE k \in 1..Len(s) : s[k] = x /\ \A m \in 1..(k-1) : s[m] # x) - 1

InSeq(s, x) == \E k \in 1..Len(s) : s[k] = x


(***************************************************************************)
(* Groups.param_RIPO.  kwargs are records whose fields are the keywords    *)
(* given; a keyword given as None (rmax=None, position=None) is a field    *)
(* left out.  A row of the table is a sequence of numbers.                 *)
(***************************************************************************)
\* lines 203-207: the sorted radii and the number of radial zones
kw_rS(kw) == IF "rS" \in DOMAIN kw THEN np_sort(kw.rS) ELSE <<>>

kw_nR(kw) == IF "rS" \in DOMAIN kw THEN Len(kw_rS(kw)) + 1 ELSE 1

\* line 214 (dimension 2: nSa is serialised, nSb is 1 and is not)
kw_nSa(kw) == IF "nSa" \in DOMAIN kw THEN kw.nSa ELSE Default_nSa

\* lines 232-235
kw_rmax(kw) == IF "rmax" \in DOMAIN kw THEN kw.rmax ELSE 0

\* lines 255-259: perception, normalization and the coefficients of each input
serial_inputs(inputs) ==
  Flatten([k \in 1..Len(inputs) |->
             <<inputs[k].perception, inputs[k].normalization>> \o inputs[k].coefficients])

\* lines 263-265: the key and the value of each output
serial_outputs(outputs) ==
  Flatten([k \in 1..Len(outputs) |-> <<outputs[k][1], outputs[k][2]>>])

\* lines 199-270: the row of one RIPO group, before the size handling
param_row(kw) ==
  <<kw_nR(kw), kw_nSa(kw)>>
    \o (IF kw_nR(kw) > 1 THEN kw_rS(kw) ELSE <<>>)
    \o <<kw_rmax(kw), Len(kw.inputs), Len(kw.outputs)>>
    \o serial_inputs(kw.inputs)
    \o serial_outputs(kw.outputs)

\* lines 251, 259: nI, the number of coefficients of all the inputs
kw_nI(kw) == SumSeq([k \in 1..Len(kw.inputs) |-> Len(kw.inputs[k].coefficients)])

\* lines 272-280: the local `param` after the size handling
pad_param(table, row) ==
  IF table # <<>> /\ Len(table[1]) > Len(row)
  THEN PadRow(row, Len(table[1]) - Len(row))
  ELSE row

\* param_table as it would be had line 276 assigned the new row instead of
\* padding the table: the rows serialised before are lost
param_table_overwrite(table, row) ==
  IF table # <<>>
  THEN IF Len(table[1]) >= Len(row) THEN table ELSE <<row>>
  ELSE <<row>>

\* param_table as it would be had line 274 cut the table to the new row's
\* width instead of padding the row
param_table_truncate(table, row) ==
  IF table # <<>>
  THEN IF Len(table[1]) > Len(row)
       THEN [r \in 1..Len(table) |-> SubSeq(table[r], 1, Len(row))]
       ELSE IF Len(table[1]) < Len(row)
            THEN Append([r \in 1..Len(table) |->
                           PadRow(table[r], Len(row) - Len(table[1]))], row)
            ELSE table
  ELSE <<row>>

\* lines 272-280: self.param after the size handling.  The concatenation of
\* line 278 stands inside the `elif` of line 275: a row that is not longer
\* than the table is wide is padded (line 274) and then dropped.
param_table(table, row) ==
  IF table # <<>>
  THEN IF Len(table[1]) > Len(row) THEN table
       ELSE IF Len(table[1]) < Len(row)
            THEN Append([r \in 1..Len(table) |->
                           PadRow(table[r], Len(row) - Len(table[1]))], row)
            ELSE table
  ELSE <<row>>

\* lines 174-287
param_RIPO(G, kw) ==
  [G EXCEPT !.param  = param_table(G.param, param_row(kw)),
            !.l_nR   = Append(G.l_nR, kw_nR(kw)),
            !.l_nZ   = Append(G.l_nZ, kw_nR(kw) * kw_nSa(kw)),
            !.l_nCaf = Append(G.l_nCaf, Len(kw.outputs) * kw_nR(kw) * kw_nSa(kw)),
            !.l_nI   = Append(G.l_nI, kw_nI(kw))]

(***************************************************************************)
(* Engine.add_group(gtype, N, **kwargs).  rnd holds what the random        *)
(* generator returns: rnd.pos for set_initial_positions, rnd.alpha for     *)
(* set_initial_orientations (N samples each).                              *)
(***************************************************************************)
\* line 343
group_name(gtype, kw) ==
  IF "name" \in DOMAIN kw THEN kw.name
  ELSE IF gtype = Agent_FIXED THEN "FIXED" ELSE "RIPO"

\* lines 349-352; a scalar speed is the field speed, an array the field speeds
initial_condition(kw) ==
  IF "initial_condition" \in DOMAIN kw THEN kw.initial_condition
  ELSE [speed |-> Default_vmax]

\* lines 356-359
group_pos(kw, rnd) ==
  IF "position" \in DOMAIN initial_condition(kw)
  THEN initial_condition(kw).position ELSE rnd.pos

\* line 364
group_V(N, kw) ==
  IF "speed" \in DOMAIN initial_condition(kw)
  THEN Ones(N, initial_condition(kw).speed) ELSE initial_condition(kw).speeds

\* lines 366-369
group_alpha(kw, rnd) ==
  IF "orientation" \in DOMAIN initial_condition(kw)
  THEN initial_condition(kw).orientation ELSE rnd.alpha

\* line 370: np.column_stack((V, alpha))
group_vel(N, kw, rnd) ==
  [k \in 1..Len(group_V(N, kw)) |-> <<group_V(N, kw)[k], group_alpha(kw, rnd)[k]>>]

\* lines 373-394 and 410: vlim, damax, noise of each of the N agents
group_aparam(N, kw) ==
  [k \in 1..N |->
     << IF "vmin" \in DOMAIN kw THEN kw.vmin ELSE Default_vmin,
        IF "vmax" \in DOMAIN kw THEN kw.vmax
        ELSE IF Len(group_V(N, kw)) = 1 THEN group_V(N, kw)[1] ELSE group_V(N, kw)[k],
        kw.damax,
        IF "vnoise" \in DOMAIN kw THEN kw.vnoise ELSE 0,
        IF "anoise" \in DOMAIN kw THEN kw.anoise ELSE 0 >>]

\* What makes add_group raise before it has changed anything: column_stack
\* of unequal columns (line 370), the assignment of a speed array that is
\* not N long to vlim[:,1] (line 375), the missing Default.damax (line 382),
\* and for a RIPO group the missing keywords inputs and outputs (lines 240,
\* 255), which the model counts with them.
add_group_raises(gtype, N, kw, rnd) ==
  \/ Len(group_V(N, kw)) # Len(group_alpha(kw, rnd))
  \/ "vmax" \notin DOMAIN kw /\ Len(group_V(N, kw)) \notin {1, N}
  \/ "damax" \notin DOMAIN kw
  \/ gtype = Agent_RIPO /\ ~ ({"inputs", "outputs"} \subseteq DOMAIN kw)

\* lines 398-411
add_agents(A, gtype, N, kw, rnd) ==
  [A EXCEPT !.N     = A.N + N,
            !.atype = A.atype \o Ones(N, gtype),
            !.pos   = A.pos \o group_pos(kw, rnd),
            !.vel   = A.vel \o group_vel(N, kw, rnd),
            !.param = A.param \o group_aparam(N, kw)]

\* lines 416-419
group_iname(G, gname) ==
  IF InSeq(G.names, gname) THEN IndexOf(G.names, gname) ELSE Len(G.names)

\* lines 416-422
register_group(G, gtype, gname) ==
  IF InSeq(G.names, gname) THEN G
  ELSE [G EXCEPT !.N     = G.N + 1,
                 !.names = Append(G.names, gname),
                 !.atype = Append(G.atype, gtype)]

\* lines 425-431
group_param(G, gtype, kw) ==
  IF gtype = Agent_RIPO THEN param_RIPO(G, kw)
  ELSE [G EXCEPT !.l_nR = Append(G.l_nR, 0),
                 !.l_nZ = Append(G.l_nZ, 0),
                 !.l_nI = Append(G.l_nI, 0)]

\* lines 340-434: the engine's agents and groups after the call
add_group_agents(A, G, gtype, N, kw, rnd) ==
  [add_agents(A, gtype, N, kw, rnd) EXCEPT
     !.group = A.group \o Ones(N, group_iname(G, group_name(gtype, kw)))]

add_group_groups(G, gtype, kw) ==
  group_param(register_group(G, gtype, group_name(gtype, kw)), gtype, kw)


\* lines 53-54: a keyword periodic that is true for Python: a non-empty
\* list (kw.periodic) or the scalar True (kw.periodic_scalar)
periodic_requested(kw) ==
  \/ "periodic" \in DOMAIN kw /\ kw.periodic # <<>>
  \/ "periodic_scalar" \in DOMAIN kw /\ kw.periodic_scalar

\* lines 45-54: the warning of a circular arena asked to be periodic
Geometry_warns(kw) ==
  "arena" \in DOMAIN kw /\ kw.arena = Arena_CIRCULAR /\ periodic_requested(kw)

\* a Geometry that gives a circular arena the periodicity asked for
Geometry_init_as_requested(kw) ==
  [arena       |-> IF "arena" \in DOMAIN kw THEN kw.arena ELSE Arena_RECTANGULAR,
   arena_shape |-> IF "shape" \in DOMAIN kw THEN kw.shape ELSE Ones(dimension, 1),
   periodic    |-> IF "arena" \in DOMAIN kw /\ kw.arena = Arena_CIRCULAR
                   THEN periodic_requested(kw)
                   ELSE IF "periodic" \in DOMAIN kw THEN kw.periodic
                        ELSE Ones(dimension, TRUE)]

(***************************************************************************)
(* Geometry.__init__ and Engine.__init__.                                  *)
(***************************************************************************)
\* lines 31-58; a circular arena is never periodic (line 55)
Geometry_init(kw) ==
  [arena       |-> IF "arena" \in DOMAIN kw THEN kw.arena ELSE Arena_RECTANGULAR,
   arena_shape |-> IF "shape" \in DOMAIN kw THEN kw.shape ELSE Ones(dimension, 1),
   periodic    |-> IF "arena" \in DOMAIN kw /\ kw.arena = Arena_CIRCULAR
                   THEN FALSE
                   ELSE IF "periodic" \in DOMAIN kw THEN kw.periodic
                        ELSE Ones(dimension, TRUE)]

\* lines 117-137
Agents_init ==
  [N |-> 0, atype |-> <<>>, pos |-> <<>>, vel |-> <<>>, param |-> <<>>, group |-> <<>>]

\* lines 148-168
Groups_init ==
  [N |-> 0, names |-> <<>>, atype |-> <<>>, param |-> <<>>,
   l_nR |-> <<>>, l_nZ |-> <<>>, l_nCaf |-> <<>>, l_nI |-> <<>>]

\* lines 300-334: the engine as its constructor leaves it
Engine_init(kw) ==
  /\ geom = Geometry_init(kw)
  /\ agents = Agents_init
  /\ groups = Groups_init
  /\ local_param = <<>>
  /\ calls = <<>>
  /\ steps = <<1>>
  /\ storage = [attached |-> FALSE, inserted |-> <<>>]
  /\ cuda = [allocated |-> FALSE]
  /\ launch = [i |-> 0, running |-> FALSE]
  /\ thread = <<>>
  /\ rng = <<>>
  /\ pc = "setup"
  /\ step_i = 0
  /\ args = [fn |-> "none"]
  /\ result = [done |-> FALSE]

(***************************************************************************)
(* The registrations the model follows.                                    *)
(***************************************************************************)
\* explicit initial conditions: the first m of these rows
FirstRows(m) == [k \in 1..m |-> <<k - 1, 0>>]

\* The initial conditions a call may give: none (the default, line 352),
\* m explicit positions with random orientations, or explicit positions,
\* orientations and speeds, MaxGroupSize of each.
InitialConditions ==
  {[speed |-> Default_vmax]}
    \cup {[position |-> FirstRows(m), speed |-> Default_vmax] : m \in 1..MaxGroupSize}
    \cup {[position |-> FirstRows(MaxGroupSize),
           orientation |-> Ones(MaxGroupSize, 1),
           speeds |-> Ones(MaxGroupSize, 1)]}

\* one presence input without normalization, one reorientation output
Config_presence ==
  [damax |-> 2, nSa |-> 2,
   inputs  |-> << [perception |-> Perception_PRESENCE,
                   normalization |-> Normalization_NONE,
                   coefficients |-> <<2, -2>>] >>,
   outputs |-> << <<Output_REORIENTATION, Activation_ANGLE>> >>]

\* RIPO configurations whose rows are longer than, as long as and shorter
\* than the row of Config_presence, and one with unsorted radii
Config_longer ==
  [damax |-> 2, nSa |-> 2, rS |-> <<2>>, rmax |-> 3,
   inputs  |-> << [perception |-> Perception_PRESENCE,
                   normalization |-> Normalization_NONE,
                   coefficients |-> <<1, -1, 2, -2>>] >>,
   outputs |-> << <<Output_REORIENTATION, Activation_ANGLE>> >>]

Config_same_length ==
  [damax |-> 1, nSa |-> 2,
   inputs  |-> << [perception |-> Perception_PRESENCE,
                   normalization |-> Normalization_SAME_GROUP,
                   coefficients |-> <<2, 2>>] >>,
   outputs |-> << <<Output_REORIENTATION, Activation_ANGLE>> >>]

Config_shorter ==
  [damax |-> 2, inputs |-> <<>>,
   outputs |-> << <<Output_REORIENTATION, Activation_ANGLE>> >>]

Config_unsorted ==
  [damax |-> 2, nSa |-> 2, rS |-> <<2, 1>>,
   inputs  |-> << [perception |-> Perception_PRESENCE,
                   normalization |-> Normalization_NONE,
                   coefficients |-> <<1, 1, 1, 1, 1, 1>>],
                  [perception |-> Perception_ORIENTATION,
                   normalization |-> Normalization_NONE,
                   coefficients |-> <<0, 0, 0, 0, 0, 0>>] >>,
   outputs |-> << <<Output_REORIENTATION, Activation_ANGLE>>,
                  <<Output_SPEED_MODULATION, Activation_SPEED>> >>]

\* kw with the keyword k set to v
WithKw(kw, k, v) == [x \in DOMAIN kw \cup {k} |-> IF x = k THEN v ELSE kw[x]]

\* what the random generator returns to a call for n agents (lines 73-75, 106)
RandomDraws(n) ==
  {[pos |-> Ones(n, p), alpha |-> Ones(n, 0)] : p \in {<<0, 0>>, <<-HalfExtent, 1>>}}

\* The calls of a setup: FIXED groups and RIPO groups of Config_presence of
\* every size and initial condition, and one-agent RIPO groups of the other
\* configurations; each named afresh or left to the default name.
SetupCalls(k) ==
  LET sized == {[gtype |-> t, N |-> n,
                 kw |-> WithKw(IF t = Agent_RIPO THEN Config_presence ELSE [damax |-> 2],
                               "initial_condition", ic)] :
                  t \in {Agent_FIXED, Agent_RIPO}, n \in 1..MaxGroupSize,
                  ic \in InitialConditions}
      other == {[gtype |-> Agent_RIPO, N |-> 1, kw |-> c] :
                  c \in {Config_longer, Config_same_length, Config_shorter,
                         Config_unsorted}}
      named(c) == {c, [c EXCEPT !.kw = WithKw(c.kw, "name", "group" \o ToString(k))]}
  IN UNION {named(c) : c \in sized \cup other}

(***************************************************************************)
(* The setup: a script's calls of add_group on a fresh engine.             *)
(***************************************************************************)
\* one call of add_group, taken from the set S of calls
AddGroupOf(S) ==
  /\ pc = "setup"
  /\ Len(calls) < MaxCalls
  /\ \E c \in S : \E rnd \in RandomDraws(c.N) :
       /\ ~ add_group_raises(c.gtype, c.N, c.kw, rnd)
       /\ agents' = add_group_agents(agents, groups, c.gtype, c.N, c.kw, rnd)
       /\ groups' = add_group_groups(groups, c.gtype, c.kw)
       /\ local_param' = IF c.gtype = Agent_RIPO
                         THEN pad_param(groups.param, param_row(c.kw))
                         ELSE local_param
       /\ calls' = Append(calls, [gtype |-> c.gtype, N |-> c.N, kw |-> c.kw])
  /\ UNCHANGED <<geom, steps, storage, cuda, launch, thread, rng, pc, step_i,
                 args, result>>

AddGroup == AddGroupOf(SetupCalls(Len(calls)))

InitGroups == Engine_init([shape |-> Ones(dimension, 2 * HalfExtent)])

NextGroups == AddGroup

SpecGroups == InitGroups /\ [][NextGroups]_vars

\* The calls of a setup that names its groups: one-agent groups of either
\* type under one of two names, so that a name comes again for the same
\* type or for the other one.
NamedCalls ==
  {[gtype |-> t, N |-> n,
    kw |-> WithKw(WithKw(IF t = Agent_RIPO THEN c ELSE [damax |-> 2], "name", nm),
                  "initial_condition", [speed |-> v])] :
     t \in {Agent_FIXED, Agent_RIPO}, n \in 1..MaxGroupSize,
     c \in {Config_presence, Config_longer},
     nm \in {"agents", "obstacles"}, v \in {0, Default_vmax}}

AddNamedGroup == AddGroupOf(NamedCalls)

InitNames == Engine_init([shape |-> Ones(dimension, 2 * HalfExtent)])

NextNames == AddNamedGroup

SpecNames == InitNames /\ [][NextNames]_vars


(***************************************************************************)
(* Arithmetic of the kernel on the lattice.  A complex number is a pair    *)
(* <<re, im>>; an angle is a number of quarter turns.                      *)
(***************************************************************************)
Abs(x) == IF x < 0 THEN -x ELSE x

Sq(x) == x * x

\* abs(z)**2
Norm2(z) == Sq(z[1]) + Sq(z[2])

\* cmath.rect(v, a)
rect(v, a) ==
  CASE a % 4 = 0 -> <<v, 0>>
    [] a % 4 = 1 -> <<0, v>>
    [] a % 4 = 2 -> <<-v, 0>>
    [] a % 4 = 3 -> <<0, -v>>

\* z * cmath.rect(1., -a): z seen from a frame turned by a
rotate_back(z, a) ==
  CASE a % 4 = 0 -> <<z[1], z[2]>>
    [] a % 4 = 1 -> <<z[2], -z[1]>>
    [] a % 4 = 2 -> <<-z[1], -z[2]>>
    [] a % 4 = 3 -> <<-z[2], z[1]>>

\* cmath.polar of an axis-parallel vector: its length and its phase in (-pi, pi]
polar(z) ==
  CASE z[2] = 0 /\ z[1] >= 0 -> <<z[1], 0>>
    [] z[2] = 0 /\ z[1] < 0  -> <<-z[1], 2>>
    [] z[2] > 0              -> <<z[2], 1>>
    [] z[2] < 0              -> <<-z[2], -1>>

\* the quarter of the plane that holds z: floor((cmath.phase(z) % (2*pi)) / (pi/2))
quarter(z) ==
  CASE z[1] > 0 /\ z[2] >= 0  -> 0
    [] z[1] <= 0 /\ z[2] > 0  -> 1
    [] z[1] < 0 /\ z[2] <= 0  -> 2
    [] z[1] >= 0 /\ z[2] < 0  -> 3
    [] OTHER                  -> 0

\* line 988: int((cmath.phase(z) % (2*math.pi))/2/math.pi*nSa), for the
\* slice counts 1, 2 and 4, whose slices are unions of quarters
angular_index(z, nSa) == (quarter(z) * nSa) \div 4

(***************************************************************************)
(* The device functions.                                                   *)
(***************************************************************************)
\* relative_axis without the wrap of a periodic axis
relative_axis_raw(x0, x1, arena_X, periodic_X) == x1 - x0

\* lines 1133-1136 (and 1139-1142): the offset on one axis
relative_axis(x0, x1, arena_X, periodic_X) ==
  IF periodic_X
  THEN IF Abs(x1 - x0) <= arena_X THEN x1 - x0
       ELSE IF x1 > x0 THEN x1 - x0 - 2 * arena_X ELSE x1 - x0 + 2 * arena_X
  ELSE x1 - x0

\* lines 1119-1145: the offset before the cutoff and the rotation
relative_offset(x0, y0, x1, y1, arena, arena_X, arena_Y, periodic_X, periodic_Y) ==
  IF arena = Arena_CIRCULAR
  THEN <<x1 - x0, y1 - y0>>
  ELSE <<relative_axis(x0, x1, arena_X, periodic_X),
         relative_axis(y0, y1, arena_Y, periodic_Y)>>

\* relative_2d without the cutoff of line 1148
relative_2d_no_cutoff(x0, y0, a0, x1, y1, a1, rmax, arena, arena_X, arena_Y, periodic_X, periodic_Y) ==
  [z |-> rotate_back(relative_offset(x0, y0, x1, y1, arena, arena_X, arena_Y,
                                     periodic_X, periodic_Y), a0),
   alpha |-> a1 - a0, status |-> TRUE]

\* lines 1110-1153; rmax is <<>> for None and <<r>> for a radius
relative_2d(x0, y0, a0, x1, y1, a1, rmax, arena, arena_X, arena_Y, periodic_X, periodic_Y) ==
  LET z == relative_offset(x0, y0, x1, y1, arena, arena_X, arena_Y, periodic_X, periodic_Y)
  IN  IF rmax # <<>> /\ Norm2(z) > Sq(rmax[1])
      THEN [z |-> <<0, 0>>, alpha |-> 0, status |-> FALSE]
      ELSE [z |-> rotate_back(z, a0), alpha |-> a1 - a0, status |-> TRUE]

\* assign_axis that mirrors the coordinate at a reflective wall and keeps
\* the velocity component
assign_axis_no_flip(x, arena_X, periodic_X) ==
  IF periodic_X
  THEN [p |-> IF x > arena_X THEN x - 2 * arena_X
              ELSE IF x < -arena_X THEN x + 2 * arena_X ELSE x,
        flip |-> FALSE]
  ELSE IF x > arena_X THEN [p |-> 2 * arena_X - x, flip |-> FALSE]
       ELSE IF x < -arena_X THEN [p |-> -2 * arena_X - x, flip |-> FALSE]
       ELSE [p |-> x, flip |-> FALSE]

\* lines 1198-1213 (and 1216-1231): one axis of a rectangular arena; the
\* coordinate, and whether the velocity component is negated
assign_axis(x, arena_X, periodic_X) ==
  IF periodic_X
  THEN [p |-> IF x > arena_X THEN x - 2 * arena_X
              ELSE IF x < -arena_X THEN x + 2 * arena_X ELSE x,
        flip |-> FALSE]
  ELSE IF x > arena_X THEN [p |-> 2 * arena_X - x, flip |-> TRUE]
       ELSE IF x < -arena_X THEN [p |-> -2 * arena_X - x, flip |-> TRUE]
       ELSE [p |-> x, flip |-> FALSE]

\* assign_rect with a wall that absorbs the velocity component normal to it
assign_rect_inelastic(z1, zv, arena_X, arena_Y, periodic_X, periodic_Y) ==
  <<assign_axis(z1[1], arena_X, periodic_X).p,
    assign_axis(z1[2], arena_Y, periodic_Y).p,
    IF assign_axis(z1[1], arena_X, periodic_X).flip THEN 0 ELSE zv[1],
    IF assign_axis(z1[2], arena_Y, periodic_Y).flip THEN 0 ELSE zv[2]>>

\* lines 1193-1231: the rectangular arena between cmath.rect and
\* cmath.polar, from the candidate z1 and the velocity zv = <<vx, vy>> to
\* <<px, py, vx, vy>>
assign_rect(z1, zv, arena_X, arena_Y, periodic_X, periodic_Y) ==
  LET X == assign_axis(z1[1], arena_X, periodic_X)
      Y == assign_axis(z1[2], arena_Y, periodic_Y)
  IN  <<X.p, Y.p,
        IF X.flip THEN -zv[1] ELSE zv[1],
        IF Y.flip THEN -zv[2] ELSE zv[2]>>

\* math.asin(s/arena_X) in quarter turns, where it is a number of them
asin_quarters(s, arena_X) ==
  CASE s = 0 -> 0
    [] s = arena_X -> 1
    [] s = -arena_X -> -1

\* lines 1161-1185: the circular arena, for the crossings that stay on the
\* lattice: the agent moves along a diameter (the sine of line 1174 is 0)
\* or leaves from the wall along the tangent (it is 1 or -1)
assign_circular(z0, z1, v, a, arena_X) ==
  IF Norm2(z1) > Sq(arena_X)
  THEN LET phi == a + asin_quarters(rotate_back(z0, a)[2], arena_X)
           zc  == rect(arena_X, phi)
           w   == rect(v - polar(<<zc[1] - z0[1], zc[2] - z0[2]>>)[1],
                       2 + 2 * phi - a)
       IN  <<zc[1] + w[1], zc[2] + w[2], v, a + 2 - 2 * (a - phi)>>
  ELSE <<z1[1], z1[2], v, a>>

\* lines 1155-1235.  The result is <<px, py, v, a>>.
assign_2d(z0, z1, v, a, arena, arena_X, arena_Y, periodic_X, periodic_Y) ==
  IF v = 0 THEN <<z1[1], z1[2], v, a>>
  ELSE IF arena = Arena_CIRCULAR
       THEN assign_circular(z0, z1, v, a, arena_X)
       ELSE LET r  == assign_rect(z1, rect(v, a), arena_X, arena_Y,
                                  periodic_X, periodic_Y)
                va == polar(<<r[3], r[4]>>)
            IN  <<r[1], r[2], va[1], va[2]>>

(***************************************************************************)
(* The kernel CUDA_step: the work of the thread of agent i (1..N in the    *)
(* model, 0..N-1 in the code).  c is the record of device arrays, l the    *)
(* launch, which binds the kernel's p0, v0 (read) and p1, v1 (written).    *)
(***************************************************************************)
\* what a local reads that no assignment has reached: Numba allocates every
\* local, scalar or cuda.local.array, in the entry block and zero-fills it
unassigned == 0

\* the arrays bound to the kernel's parameters p0, v0 (lines 481-496)
kernel_p0(c, l) == IF l.rd = 0 THEN c.p0 ELSE c.p1

kernel_v0(c, l) == IF l.rd = 0 THEN c.v0 ELSE c.v1

\* the arrays bound to the kernel's parameters p1, v1
kernel_p1(c, l) == IF l.wr = 0 THEN c.p0 ELSE c.p1

kernel_v1(c, l) == IF l.wr = 0 THEN c.v0 ELSE c.v1

\* store_p1 without the thread's index: every thread stores into row 0
store_p1_row0(c, l, row, p) ==
  IF l.wr = 0 THEN [c EXCEPT !.p0[1] = p] ELSE [c EXCEPT !.p1[1] = p]

\* the device arrays after p1[row] = p (lines 753, 1099)
store_p1(c, l, row, p) ==
  IF l.wr = 0 THEN [c EXCEPT !.p0[row] = p] ELSE [c EXCEPT !.p1[row] = p]

\* the device arrays after v1[row] = v (line 1099)
store_v1(c, l, row, v) ==
  IF l.wr = 0 THEN [c EXCEPT !.v0[row] = v] ELSE [c EXCEPT !.v1[row] = v]

\* gparam[gid, k]
gparam_at(c, gid, k) == c.gparam[gid + 1][k + 1]

RECURSIVE scan_inputs(_, _, _, _, _, _, _)
\* lines 911-941: the scan of the nIs inputs of row gid from column k on;
\* acc holds weights, nIn and whether i_pres and i_ornt are allocated
scan_inputs(c, gid, nIs, nc_ADI, iS, k, acc) ==
  IF iS >= nIs THEN [acc EXCEPT !.k = k]
  ELSE IF gparam_at(c, gid, k) \in {Perception_PRESENCE, Perception_ORIENTATION}
       THEN scan_inputs(c, gid, nIs, nc_ADI, iS + 1, k + nc_ADI + 2,
              [acc EXCEPT
                 !.weights = [w \in 1..Len(acc.weights) |->
                                IF acc.nIn < w /\ w <= acc.nIn + nc_ADI
                                THEN gparam_at(c, gid, k + 2 + (w - 1 - acc.nIn))
                                ELSE acc.weights[w]],
                 !.nIn = acc.nIn + nc_ADI,
                 !.bADInput = TRUE,
                 !.pres = acc.pres \/ gparam_at(c, gid, k) = Perception_PRESENCE,
                 !.ornt = acc.ornt \/ gparam_at(c, gid, k) = Perception_ORIENTATION])
       ELSE scan_inputs(c, gid, nIs, nc_ADI, iS + 1, k, acc)

RECURSIVE scan_outputs(_, _, _, _, _, _)
\* lines 948-959: the activation of each action
scan_outputs(c, gid, nOut, kOref, io, acc) ==
  IF io >= nOut THEN acc
  ELSE scan_outputs(c, gid, nOut, kOref, io + 1,
         IF gparam_at(c, gid, kOref + io * 2) = Output_REORIENTATION
         THEN [acc EXCEPT !.Out_da = gparam_at(c, gid, kOref + io * 2 + 1)]
         ELSE IF gparam_at(c, gid, kOref + io * 2) = Output_SPEED_MODULATION
              THEN [acc EXCEPT !.Out_dv = gparam_at(c, gid, kOref + io * 2 + 1)]
              ELSE acc)

\* lines 838-959: the RIPO parameters of group gid as the kernel reads them
kernel_decode(c, gid) ==
  LET nG     == Len(c.gparam)
      nR     == gparam_at(c, gid, 0)
      nSa    == gparam_at(c, gid, 1)
      nOut   == gparam_at(c, gid, nR + dimension + 1)
      nIs    == gparam_at(c, gid, nR + dimension)
      nc_ADI == nOut * nG * nR * nSa
      kIref  == nR + dimension + 2
      ins    == scan_inputs(c, gid, nIs, nc_ADI, 0, kIref,
                  [weights |-> Ones(c.m_nI, unassigned), nIn |-> 0, k |-> kIref,
                   bADInput |-> FALSE, pres |-> FALSE, ornt |-> FALSE])
      outs   == scan_outputs(c, gid, nOut, ins.k, 0, [Out_da |-> -1, Out_dv |-> -1])
  IN  [nG |-> nG, nR |-> nR, nSa |-> nSa, nZ |-> nR * nSa,
       rS |-> [ri \in 1..(nR - 1) |-> gparam_at(c, gid, dimension + ri - 1)],
       rmax |-> IF gparam_at(c, gid, dimension + nR - 1) > 0
                THEN <<gparam_at(c, gid, nR + dimension - 1)>> ELSE <<>>,
       nIs |-> nIs, nOut |-> nOut, kIref |-> kIref, nc_ADI |-> nc_ADI,
       weights |-> ins.weights, bADInput |-> ins.bADInput,
       pres |-> ins.pres, ornt |-> ins.ornt, kOref |-> ins.k,
       Out_da |-> outs.Out_da, Out_dv |-> outs.Out_dv]

\* lines 983-986: the first k with abs(z) < rS[k], else nR-1 (rS[nR-1] is
\* never assigned, and k = nR-1 is taken before it is compared)
radial_index(z, nR, rS) ==
  IF \E k \in 1..(nR - 1) : Norm2(z) < Sq(rS[k])
  THEN (CHOOSE k \in 1..(nR - 1) :
          /\ Norm2(z) < Sq(rS[k])
          /\ \A m \in 1..(k - 1) : ~ (Norm2(z) < Sq(rS[m]))) - 1
  ELSE nR - 1

\* line 975: relative_2d of agent j as agent i reads it from p0, v0 and geom
kernel_relative(c, l, D, i, j) ==
  relative_2d(kernel_p0(c, l)[i][1], kernel_p0(c, l)[i][2], kernel_v0(c, l)[i][2],
              kernel_p0(c, l)[j][1], kernel_p0(c, l)[j][2], kernel_v0(c, l)[j][2],
              D.rmax, c.geom[1], c.geom[2], c.geom[3], c.geom[4] # 0, c.geom[5] # 0)

\* lines 980-994: the cell of the zone grid that holds the offset z
grid_index(D, z) == radial_index(z, D.nR, D.rS) * D.nSa + angular_index(z, D.nSa)

\* lines 980-994 in floating point: the cell for an offset z whose imaginary
\* part is z[2] + below, below being 0 or a negative number under the
\* resolution of the phase.  For z[2] = 0, z[1] > 0 and below < 0 the phase
\* is a negative number so small that phase % (2*pi) is 2*pi itself, and
\* line 988 gives int(2*pi/2/pi*nSa) = nSa.
zone_index(D, z, below) ==
  radial_index(z, D.nR, D.rS) * D.nSa
    + (IF below < 0 /\ z[2] = 0 /\ z[1] > 0 THEN D.nSa ELSE angular_index(z, D.nSa))

\* lines 969-1003: one turn of the loop over j, on the histogram i_pres
perceive(c, l, D, i, j, i_pres) ==
  IF i = j THEN i_pres
  ELSE IF ~ kernel_relative(c, l, D, i, j).status THEN i_pres
       ELSE IF D.pres
            THEN [i_pres EXCEPT ![grid_index(D, kernel_relative(c, l, D, i, j).z) + 1] = @ + 1]
            ELSE i_pres

RECURSIVE weighted_sum_all_modes(_, _, _, _, _, _)
\* a weighted sum that treats every normalization mode as NONE
weighted_sum_all_modes(c, gid, D, iS, k, i_pres) ==
  IF iS >= D.nIs THEN 0
  ELSE IF gparam_at(c, gid, k) = Perception_PRESENCE
       THEN SumSeq([ci \in 1..D.nc_ADI |-> i_pres[ci] * D.weights[ci]])
            + weighted_sum_all_modes(c, gid, D, iS + 1, k + D.nc_ADI + 2, i_pres)
       ELSE weighted_sum_all_modes(c, gid, D, iS + 1, k + D.nc_ADI + 2, i_pres)

RECURSIVE weighted_sum(_, _, _, _, _, _)
\* lines 1015-1047: WS, over the inputs from iS on, k being the column of
\* input iS.  Every presence input without normalization adds the products
\* of i_pres[ci] and weights[ci] for ci in range(nc_ADI).
weighted_sum(c, gid, D, iS, k, i_pres) ==
  IF iS >= D.nIs THEN 0
  ELSE IF gparam_at(c, gid, k) = Perception_PRESENCE
       THEN (IF gparam_at(c, gid, k + 1) = Normalization_NONE
             THEN SumSeq([ci \in 1..D.nc_ADI |-> i_pres[ci] * D.weights[ci]])
             ELSE 0)
            + weighted_sum(c, gid, D, iS + 1, k + D.nc_ADI + 2, i_pres)
       ELSE IF gparam_at(c, gid, k) = Perception_ORIENTATION
            THEN weighted_sum(c, gid, D, iS + 1, k + D.nc_ADI + 2, i_pres)
            ELSE weighted_sum(c, gid, D, iS + 1, k, i_pres)

\* 4/pi*atan(exp(s/2)) - 1 for s >= 0, in quarters and rounded down: it is
\* 0 at 0, at least 1/4 from s = 1, 1/2 from s = 2, 3/4 from s = 4, below 1
activation_quarters(s) ==
  CASE s = 0 -> 0
    [] s = 1 -> 1
    [] s \in {2, 3} -> 2
    [] OTHER -> 3

\* line 1056 in double precision: 4/pi*atan(exp(WS/2))-1 is exactly 1.0 from
\* WS = 73 on (to exp's overflow) and exactly -1.0 from WS = -76 down
ActivationSaturatesAbove == 73
ActivationSaturatesBelow == 76

\* an activation that turns by damax whatever the weighted sum
angle_activation_biased(damax, WS) == damax

\* line 1056: damax*(4/pi*atan(exp(WS/2))-1) rounded toward zero to quarter
\* turns (damax is 1, 2 or 4 quarter turns); damax itself where the
\* floating-point value of the bracket is 1.0 or -1.0
angle_activation(damax, WS) ==
  IF WS >= ActivationSaturatesAbove THEN damax
  ELSE IF WS <= -ActivationSaturatesBelow THEN -damax
  ELSE IF WS >= 0 THEN (damax * activation_quarters(WS)) \div 4
       ELSE -((damax * activation_quarters(-WS)) \div 4)

\* lines 1053-1059: da of a RIPO agent
reorientation(c, gid, D, i, i_pres) ==
  IF D.Out_da = Activation_ANGLE
  THEN angle_activation(c.aparam[i][3], weighted_sum(c, gid, D, 0, D.kIref, i_pres))
  ELSE 0

\* lines 1085-1088: the speed after the speed noise and its clamp
noisy_speed(v, vnoise, vmin, vmax, draw) ==
  IF vnoise # 0
  THEN IF v + vnoise * draw < vmin THEN vmin
       ELSE IF v + vnoise * draw > vmax THEN vmax ELSE v + vnoise * draw
  ELSE v

\* lines 1091-1092
noisy_angle(a, anoise, draw) == IF anoise # 0 THEN a + anoise * draw ELSE a

\* lines 1072-1101: <<px, py, v, a>> of agent i, da and dv being what the
\* branch of its type has left in them
kernel_update(c, l, i, da, dv, draws) ==
  LET v  == noisy_speed(kernel_v0(c, l)[i][1] + dv, c.aparam[i][4],
                        c.aparam[i][1], c.aparam[i][2], draws[1])
      a  == noisy_angle(kernel_v0(c, l)[i][2] + da, c.aparam[i][5], draws[2])
      z0 == kernel_p0(c, l)[i]
      z1 == <<z0[1] + rect(v, a)[1], z0[2] + rect(v, a)[2]>>
  IN  assign_2d(z0, z1, v, a, c.geom[1], c.geom[2], c.geom[3],
                c.geom[4] # 0, c.geom[5] # 0)

RECURSIVE perceive_all(_, _, _, _, _, _)
\* lines 969-1003: the loop over j from agent j on
perceive_all(c, l, D, i, j, i_pres) ==
  IF j > Len(kernel_p0(c, l)) THEN i_pres
  ELSE perceive_all(c, l, D, i, j + 1, perceive(c, l, D, i, j, i_pres))

\* lines 834-1069: da of agent i once its histogram is i_pres
kernel_da(c, i, i_pres) ==
  IF c.atype[i] = Agent_RIPO
  THEN reorientation(c, c.group[i], kernel_decode(c, c.group[i]), i, i_pres)
  ELSE unassigned

\* kernel_dv with a speed modulation that accelerates every agent
kernel_dv_accelerates(c, i) == 1

\* lines 1063-1069: dv of agent i
kernel_dv(c, i) == IF c.atype[i] = Agent_RIPO THEN 0 ELSE unassigned

\* lines 920, 932: the local arrays i_pres as cuda.local.array leaves it
local_array(c) == Ones(c.m_nCad, unassigned)

\* lines 743-1101 in one piece: <<px, py, v, a>> that the thread of agent i
\* stores when it runs alone on the device arrays c
kernel_thread(c, l, i, draws) ==
  kernel_update(c, l, i,
    kernel_da(c, i,
      IF c.atype[i] = Agent_RIPO /\ kernel_decode(c, c.group[i]).bADInput
      THEN perceive_all(c, l, kernel_decode(c, c.group[i]), i, 1, local_array(c))
      ELSE local_array(c)),
    kernel_dv(c, i), draws)

(***************************************************************************)
(* The threads of a launch.  A thread takes its steps in program order;    *)
(* the device interleaves the steps of different threads in any order.     *)
(***************************************************************************)
\* lines 743-959: the copy of a fixed agent's position and the decoding
ThreadStart(i) ==
  /\ i \in DOMAIN thread
  /\ thread[i].pc = "start"
  /\ cuda' = IF cuda.atype[i] = Agent_FIXED
             THEN store_p1(cuda, launch, i, kernel_p0(cuda, launch)[i])
             ELSE cuda
  /\ thread' = [thread EXCEPT ![i] =
                  IF cuda.atype[i] = Agent_RIPO
                     /\ kernel_decode(cuda, cuda.group[i]).bADInput
                  THEN [pc |-> "scan", j |-> 1, i_pres |-> local_array(cuda)]
                  ELSE [pc |-> "update", j |-> 1, i_pres |-> local_array(cuda)]]
  /\ UNCHANGED <<geom, agents, groups, local_param, calls, steps, storage,
                 launch, rng, pc, step_i,
                 args, result>>

\* lines 969-1003: one turn of the loop over the agents j
ThreadScan(i) ==
  /\ i \in DOMAIN thread
  /\ thread[i].pc = "scan"
  /\ thread' = [thread EXCEPT ![i] =
                  [pc |-> IF thread[i].j >= Len(kernel_p0(cuda, launch))
                          THEN "update" ELSE "scan",
                   j |-> thread[i].j + 1,
                   i_pres |-> perceive(cuda, launch,
                                       kernel_decode(cuda, cuda.group[i]),
                                       i, thread[i].j, thread[i].i_pres)]]
  /\ UNCHANGED <<geom, agents, groups, local_param, calls, steps, storage,
                 cuda, launch, rng, pc, step_i,
                 args, result>>

\* lines 1005-1101: the weighted sum, the activation and the update
ThreadUpdate(i) ==
  /\ i \in DOMAIN thread
  /\ thread[i].pc = "update"
  /\ LET r == kernel_update(cuda, launch, i,
                            kernel_da(cuda, i, thread[i].i_pres),
                            kernel_dv(cuda, i), rng[i])
     IN  cuda' = store_v1(store_p1(cuda, launch, i, <<r[1], r[2]>>),
                          launch, i, <<r[3], r[4]>>)
  /\ thread' = [thread EXCEPT ![i].pc = "done"]
  /\ UNCHANGED <<geom, agents, groups, local_param, calls, steps, storage,
                 launch, rng, pc, step_i,
                 args, result>>

(***************************************************************************)
(* The host: the script's settings, Engine.run and Engine.step.            *)
(***************************************************************************)
\* E.steps = ... in the script: None for a run on the animation clock, or a
\* number of steps
SetSteps ==
  /\ pc = "setup"
  /\ \E n \in {<<>>, <<MaxSteps>>} : steps # n /\ steps' = n
  /\ UNCHANGED <<geom, agents, groups, local_param, calls, storage, cuda,
                 launch, thread, rng, pc, step_i,
                 args, result>>

\* Engine.setup_storage, lines 460-468
SetupStorage ==
  /\ pc = "setup"
  /\ ~ storage.attached
  /\ storage' = [storage EXCEPT !.attached = TRUE]
  /\ UNCHANGED <<geom, agents, groups, local_param, calls, steps, cuda,
                 launch, thread, rng, pc, step_i,
                 args, result>>

\* a check of the number of steps only
run_warns_steps_only(s, st) == s = <<>>

\* lines 522-532: without animation run warns and returns if the number of
\* steps is None or if there is no storage
run_warns(s, st) == s = <<>> \/ ~ st.attached

\* lines 522-532: without animation run needs steps and a storage
RunWarn ==
  /\ pc = "setup"
  /\ run_warns(steps, storage)
  /\ pc' = "returned"
  /\ UNCHANGED <<geom, agents, groups, local_param, calls, steps, storage,
                 cuda, launch, thread, rng, step_i,
                 args, result>>

\* a storage that keeps the last step only
insert_step_overwrite(st, i, pos, vel) ==
  [st EXCEPT !.inserted = <<[step |-> i, pos |-> pos, vel |-> vel]>>]

\* Storage.insert_step(i, pos, vel)
insert_step(st, i, pos, vel) ==
  [st EXCEPT !.inserted = Append(@, [step |-> i, pos |-> pos, vel |-> vel])]

RECURSIVE max(_)
\* max of a list
max(s) ==
  IF Len(s) = 1 THEN s[1]
  ELSE IF s[1] >= max(Tail(s)) THEN s[1] ELSE max(Tail(s))

\* lines 536-542 and 553 (CUDA.__init__, lines 720-724): max() of an empty
\* list raises; the initial state is in the storage by then
RunRaises ==
  /\ pc = "setup"
  /\ ~ run_warns(steps, storage)
  /\ groups.l_nCaf = <<>>
  /\ storage' = insert_step(storage, 0, agents.pos, agents.vel)
  /\ pc' = "raised"
  /\ UNCHANGED <<geom, agents, groups, local_param, calls, steps, cuda,
                 launch, thread, rng, step_i,
                 args, result>>

\* what device_array leaves in a fresh array: whatever the memory held
DeviceMemory == {0, 1}

\* lines 595-606: the serialised geometry
serial_geom(g) ==
  << g.arena, g.arena_shape[1] \div 2, g.arena_shape[2] \div 2,
     IF g.arena = Arena_CIRCULAR THEN (IF g.periodic THEN 1 ELSE 0)
     ELSE (IF g.periodic[1] THEN 1 ELSE 0),
     IF g.arena = Arena_CIRCULAR THEN (IF g.periodic THEN 1 ELSE 0)
     ELSE (IF g.periodic[2] THEN 1 ELSE 0) >>

\* lines 553-625: the device arrays, p1 and v1 holding m in every cell
CUDA_init(A, G, g, m) ==
  [allocated |-> TRUE,
   m_nR   |-> max(G.l_nR),
   m_nZ   |-> max(G.l_nZ),
   m_nCaf |-> max(G.l_nCaf),
   m_nCad |-> max(G.l_nCaf) * G.N,
   m_nI   |-> max(G.l_nI),
   atype  |-> A.atype,
   group  |-> A.group,
   p0     |-> A.pos,
   v0     |-> A.vel,
   aparam |-> A.param,
   gparam |-> G.param,
   p1     |-> Ones(A.N, Ones(dimension, m)),
   v1     |-> Ones(A.N, Ones(dimension, m)),
   geom   |-> serial_geom(g)]

\* lines 517-640: run up to its loop
Run ==
  /\ pc = "setup"
  /\ ~ run_warns(steps, storage)
  /\ groups.l_nCaf # <<>>
  /\ storage' = insert_step(storage, 0, agents.pos, agents.vel)
  /\ \E m \in DeviceMemory : cuda' = CUDA_init(agents, groups, geom, m)
  /\ pc' = "loop"
  /\ step_i' = 0
  /\ UNCHANGED <<geom, agents, groups, local_param, calls, steps, launch,
                 thread, rng,
                 args, result>>

\* lines 640-642: a turn of the loop that does not step (step = 0)
LoopSkip ==
  /\ pc = "loop"
  /\ step_i < steps[1]
  /\ step_i = 0
  /\ step_i' = step_i + 1
  /\ UNCHANGED <<geom, agents, groups, local_param, calls, steps, storage,
                 cuda, launch, thread, rng, pc,
                 args, result>>

\* step without the double buffer: every step reads (p0, v0)
step_buffers_fixed(i) == [rd |-> 0, wr |-> 1]

\* step with the pairs the other way round: odd steps read (p1, v1)
step_buffers_swapped(i) ==
  IF i % 2 = 1 THEN [rd |-> 1, wr |-> 0] ELSE [rd |-> 0, wr |-> 1]

\* lines 479-496: the pair bound to the kernel's p0, v0 (rd) and the pair
\* bound to its p1, v1 (wr); pair 0 is (cuda.p0, cuda.v0), pair 1 is
\* (cuda.p1, cuda.v1)
step_buffers(i) ==
  IF i % 2 = 1 THEN [rd |-> 0, wr |-> 1] ELSE [rd |-> 1, wr |-> 0]

\* the normal draws a thread's generator can yield in one launch: the one
\* for the speed, then the one for the heading (lines 1086, 1092)
Draws(c, i) ==
  {<<dv, da>> : dv \in (IF c.aparam[i][4] # 0 THEN {-1, 0, 1} ELSE {0}),
                da \in (IF c.aparam[i][5] # 0 THEN {-1, 0, 1} ELSE {0})}

\* lines 474-496: step(i) up to the launch of the kernel
StepLaunch ==
  /\ pc = "loop"
  /\ step_i < steps[1]
  /\ step_i # 0
  /\ launch' = [i |-> step_i, running |-> TRUE,
                rd |-> step_buffers(step_i).rd, wr |-> step_buffers(step_i).wr,
                c_in |-> cuda]
  /\ thread' = [i \in 1..Len(cuda.p0) |-> [pc |-> "start", j |-> 1, i_pres |-> <<>>]]
  /\ rng' \in [1..Len(cuda.p0) -> UNION {Draws(cuda, i) : i \in 1..Len(cuda.p0)}]
  /\ \A i \in 1..Len(cuda.p0) : rng'[i] \in Draws(cuda, i)
  /\ pc' = "kernel"
  /\ UNCHANGED <<geom, agents, groups, local_param, calls, steps, storage,
                 cuda, step_i,
                 args, result>>

\* cuda.synchronize() returning without waiting for the threads
synchronize_no_wait(th) == TRUE

\* lines 486, 498: cuda.synchronize() returns once every thread is through
synchronize(th) == \A i \in DOMAIN th : th[i].pc = "done"

\* lines 486-506: step(i) from the synchronization on, and the loop's turn
StepReturn ==
  /\ pc = "kernel"
  /\ synchronize(thread)
  /\ agents' = [agents EXCEPT !.pos = kernel_p1(cuda, launch),
                              !.vel = kernel_v1(cuda, launch)]
  /\ storage' = insert_step(storage, launch.i, kernel_p1(cuda, launch),
                            kernel_v1(cuda, launch))
  /\ launch' = [launch EXCEPT !.running = FALSE]
  /\ step_i' = step_i + 1
  /\ pc' = "loop"
  /\ UNCHANGED <<geom, groups, local_param, calls, steps, cuda, thread, rng,
                 args, result>>

\* lines 644 and 652-670: end() after the last turn
End ==
  /\ pc = "loop"
  /\ step_i >= steps[1]
  /\ pc' = "ended"
  /\ UNCHANGED <<geom, agents, groups, local_param, calls, steps, storage,
                 cuda, launch, thread, rng, step_i,
                 args, result>>

(***************************************************************************)
(* The simulations the model follows: setups whose kernel reads stay       *)
(* inside gparam (the RIPO groups come first and each has a row), on a     *)
(* rectangular arena of half extent HalfExtent with the agents inside.     *)
(***************************************************************************)
MaxAgents == 3

\* agents on the walls, heading outwards
Spots ==
  [position    |-> << <<-HalfExtent, 0>>, <<HalfExtent, 0>>,
                      <<0, HalfExtent>>, <<0, -HalfExtent>> >>,
   orientation |-> <<2, 0, 1, 3>>]

\* agents next to each other around the centre, heading along x
Near ==
  [position    |-> << <<0, 0>>, <<1, 0>>, <<0, 1>>, <<-1, 0>> >>,
   orientation |-> <<0, 0, 0, 0>>]

\* the first n agents of a placement, at speed v
Placed(pl, n, v) ==
  [position |-> SubSeq(pl.position, 1, n),
   orientation |-> SubSeq(pl.orientation, 1, n),
   speed |-> v]

\* Config_presence with noise on the speed and on the heading
Config_noisy ==
  [damax |-> 2, nSa |-> 2, vnoise |-> 1, anoise |-> 1,
   inputs  |-> << [perception |-> Perception_PRESENCE,
                   normalization |-> Normalization_NONE,
                   coefficients |-> <<2, -2>>] >>,
   outputs |-> << <<Output_REORIENTATION, Activation_ANGLE>> >>]

\* two RIPO groups that perceive each other (nG = 2): 1*2*1*2 coefficients
\* for the first, 1*2*1*4 for the second
Config_species_1 ==
  [damax |-> 2, nSa |-> 2,
   inputs  |-> << [perception |-> Perception_PRESENCE,
                   normalization |-> Normalization_NONE,
                   coefficients |-> <<2, -2, 1, -1>>] >>,
   outputs |-> << <<Output_REORIENTATION, Activation_ANGLE>> >>]

Config_species_2 ==
  [damax |-> 4, nSa |-> 4,
   inputs  |-> << [perception |-> Perception_PRESENCE,
                   normalization |-> Normalization_NONE,
                   coefficients |-> <<1, 2, -2, -1, 0, 0, 0, 0>>] >>,
   outputs |-> << <<Output_REORIENTATION, Activation_ANGLE>> >>]

\* a call of add_group
Call(gtype, N, kw, name, ic) ==
  [gtype |-> gtype, N |-> N,
   kw |-> WithKw(WithKw(kw, "name", name), "initial_condition", ic)]

\* The calls of a simulation script after the calls made so far: first a
\* RIPO group, then fixed agents or the second species.
SimulationCalls(made) ==
  IF made = <<>>
  THEN {Call(Agent_RIPO, n, Config_presence, "agents", Placed(pl, n, Default_vmax)) :
          n \in 1..MaxGroupSize, pl \in {Spots, Near}}
       \cup {Call(Agent_RIPO, 1, Config_presence, "agents", [speed |-> Default_vmax]),
             Call(Agent_RIPO, 1, Config_noisy, "agents", Placed(Spots, 1, Default_vmax)),
             Call(Agent_RIPO, MaxGroupSize, Config_longer, "agents",
                  Placed(Near, MaxGroupSize, Default_vmax)),
             Call(Agent_RIPO, 1, Config_species_1, "agents_1",
                  Placed(Near, 1, Default_vmax))}
  ELSE {c \in {Call(Agent_FIXED, 1, [damax |-> 2], "fixed", [speed |-> Default_vmax]),
               Call(Agent_FIXED, 1, [damax |-> 2], "fixed", Placed(Spots, 1, 0)),
               Call(Agent_RIPO, 1, Config_species_2, "agents_2",
                    Placed(Spots, 1, Default_vmax))} :
          /\ agents.N + c.N <= MaxAgents
          /\ (c.gtype = Agent_RIPO) =
               (Len(made) = 1 /\ made[1].kw.name = "agents_1")}

AddSimulationGroup == AddGroupOf(SimulationCalls(calls))

Init ==
  \E periodic \in {<<TRUE, TRUE>>, <<TRUE, FALSE>>} :
    Engine_init([arena |-> Arena_RECTANGULAR,
                 shape |-> Ones(dimension, 2 * HalfExtent),
                 periodic |-> periodic])

Next ==
  \/ AddSimulationGroup
  \/ SetSteps
  \/ SetupStorage
  \/ RunWarn
  \/ RunRaises
  \/ Run
  \/ LoopSkip
  \/ StepLaunch
  \/ \E i \in DOMAIN thread : ThreadStart(i)
  \/ \E i \in DOMAIN thread : ThreadScan(i)
  \/ \E i \in DOMAIN thread : ThreadUpdate(i)
  \/ StepReturn
  \/ End

Spec == Init /\ [][Next]_vars

(***************************************************************************)
(* The simulations of a single RIPO agent: anywhere on the lattice inside  *)
(* the arena, with any heading, at rest or at the default speed, the       *)
(* first axis of the arena being reflective.                               *)
(***************************************************************************)
SingleAgentCalls ==
  {Call(Agent_RIPO, 1, Config_presence, "agents",
        [position |-> << <<x, y>> >>, orientation |-> <<a>>, speed |-> v]) :
     x \in -HalfExtent..HalfExtent, y \in -HalfExtent..HalfExtent,
     a \in 0..3, v \in {0, Default_vmax}}

AddSingleAgent == calls = <<>> /\ AddGroupOf(SingleAgentCalls)

InitSingle ==
  \E periodic \in {<<FALSE, FALSE>>, <<FALSE, TRUE>>} :
    Engine_init([arena |-> Arena_RECTANGULAR,
                 shape |-> Ones(dimension, 2 * HalfExtent),
                 periodic |-> periodic])

NextSingle ==
  \/ AddSingleAgent
  \/ SetSteps
  \/ SetupStorage
  \/ RunWarn
  \/ RunRaises
  \/ Run
  \/ LoopSkip
  \/ StepLaunch
  \/ \E i \in DOMAIN thread : ThreadStart(i)
  \/ \E i \in DOMAIN thread : ThreadScan(i)
  \/ \E i \in DOMAIN thread : ThreadUpdate(i)
  \/ StepReturn
  \/ End

SpecSingle == InitSingle /\ [][NextSingle]_vars

(***************************************************************************)
(* Coefficients (coefficients.py).  The engine is given by its list of     *)
(* outputs (the Action of each), its number of groups and the grid of the  *)
(* input i: <<>> for None, else <<[nZ |-> ..., nSa |-> ...]>>.             *)
(***************************************************************************)
Action_SPEED_MODULATION == 0
Action_REORIENTATION == 1
Action_REORIENTATION_LONGITUDINAL == 2
Action_REORIENTATION_FRONTAL == 3

\* enums.py 51-60: the values of the enumerants of Action (REORIENTATION,
\* _TRANSVERSE and _AXIAL are one value, as are the other pairs)
Actions ==
  {Action_SPEED_MODULATION, Action_REORIENTATION,
   Action_REORIENTATION_LONGITUDINAL, Action_REORIENTATION_FRONTAL}

\* lines 11-41; ignore: C is CoeffSet.IGNORE, else C is the list given
Coefficients_init(outputs, nG, grid, ignore, C) ==
  LET nO   == Len(outputs)
      nCpO == IF grid = <<>> THEN 1 ELSE nG * grid[1].nZ
  IN  [nO |-> nO, nG |-> nG, nCpO |-> nCpO,
       gridded |-> grid # <<>>,
       nSa |-> IF grid = <<>> THEN 0 ELSE grid[1].nSa,
       nC |-> nO * nCpO,
       C |-> IF ignore THEN Ones(nO * nCpO, 0) ELSE C]

\* line 61: C[k] is kept for a speed modulation; (j + nSa/4) % nSa < nSa/2
\* in quarters
keeps_speed_modulation(j, nSa) == ((4 * j + nSa) % (4 * nSa)) < 2 * nSa

\* line 64: C[k] is kept for a reorientation; (j % nSa) < nSa/2 in halves
keeps_reorientation(j, nSa) == 2 * (j % nSa) < nSa

\* lines 54-64: what the loop over j appends to W for the output i
weights_of_output(Co, i, action) ==
  IF action = Action_SPEED_MODULATION
  THEN [n \in 1..Co.nCpO |->
          IF keeps_speed_modulation(n - 1, Co.nSa)
          THEN Co.C[Co.nCpO * i + n] ELSE -Co.C[Co.nCpO * i + n]]
  ELSE IF action = Action_REORIENTATION
       THEN [n \in 1..Co.nCpO |->
               IF keeps_reorientation(n - 1, Co.nSa)
               THEN Co.C[Co.nCpO * i + n] ELSE -Co.C[Co.nCpO * i + n]]
       ELSE <<>>

\* to_weights that exports the raw coefficients
to_weights_raw(Co, outputs) == Co.C

\* lines 43-66
to_weights(Co, outputs) ==
  IF ~ Co.gridded THEN Co.C
  ELSE Flatten([n \in 1..Len(outputs) |-> weights_of_output(Co, n - 1, outputs[n])])

(***************************************************************************)
(* Direct calls: a function of the program called once on arguments of     *)
(* its domain, args holding the call and result what it returned.          *)
(***************************************************************************)
\* the engine before any call of it, but for args and result
EngineIdle ==
  /\ geom = Geometry_init([shape |-> Ones(dimension, 2 * HalfExtent)])
  /\ agents = Agents_init
  /\ groups = Groups_init
  /\ local_param = <<>>
  /\ calls = <<>>
  /\ steps = <<1>>
  /\ storage = [attached |-> FALSE, inserted |-> <<>>]
  /\ cuda = [allocated |-> FALSE]
  /\ launch = [i |-> 0, running |-> FALSE]
  /\ thread = <<>>
  /\ rng = <<>>
  /\ pc = "setup"
  /\ step_i = 0

\* the call returns value
Return(value) ==
  /\ ~ result.done
  /\ result' = [done |-> TRUE, value |-> value]
  /\ UNCHANGED <<geom, agents, groups, local_param, calls, steps, storage,
                 cuda, launch, thread, rng, pc, step_i, args>>

\* candidate coordinates: up to one lattice step more than an extent
\* outside the arena
Candidates == (-3 * HalfExtent - 1)..(3 * HalfExtent + 1)

\* the rectangular branch of assign_2d on a candidate and a velocity, the
\* second axis one longer than the first
Calls_assign_rect ==
  {[fn |-> "assign_rect", z1 |-> <<x, y>>, zv |-> <<vx, vy>>,
    arena_X |-> HalfExtent, arena_Y |-> HalfExtent + 1,
    periodic_X |-> pX, periodic_Y |-> pY] :
     x \in Candidates, y \in {-HalfExtent - 2, 0, HalfExtent + 2},
     vx \in -1..1, vy \in -1..1, pX \in BOOLEAN, pY \in BOOLEAN}

Call_assign_rect ==
  /\ args.fn = "assign_rect"
  /\ Return(assign_rect(args.z1, args.zv, args.arena_X, args.arena_Y,
                        args.periodic_X, args.periodic_Y))

\* assign_2d as the kernel calls it (line 1099): from z0 inside the arena,
\* at speed v with heading a, z1 being z0 + rect(v, a); in a circular arena
\* the crossings of assign_circular
Calls_assign_2d ==
  {[fn |-> "assign_2d", z0 |-> <<x, y>>, v |-> v, a |-> a,
    z1 |-> <<x + rect(v, a)[1], y + rect(v, a)[2]>>,
    arena |-> g[1], arena_X |-> HalfExtent, arena_Y |-> HalfExtent,
    periodic_X |-> g[2], periodic_Y |-> g[3]] :
     x \in -HalfExtent..HalfExtent, y \in -HalfExtent..HalfExtent,
     v \in -1..(2 * HalfExtent + 1), a \in -1..4,
     g \in {<<Arena_RECTANGULAR, TRUE, TRUE>>, <<Arena_RECTANGULAR, TRUE, FALSE>>,
            <<Arena_RECTANGULAR, FALSE, FALSE>>, <<Arena_CIRCULAR, FALSE, FALSE>>}}

\* the call is in the part of assign_2d that the lattice holds
OnLattice(c) ==
  c.arena = Arena_CIRCULAR =>
    /\ Norm2(c.z0) <= Sq(c.arena_X)
    /\ rotate_back(c.z0, c.a)[2] \in {0, c.arena_X, -c.arena_X}
    /\ c.v >= 0

Call_assign_2d ==
  /\ args.fn = "assign_2d"
  /\ Return(assign_2d(args.z0, args.z1, args.v, args.a, args.arena,
                      args.arena_X, args.arena_Y, args.periodic_X, args.periodic_Y))

\* lines 231-235 and 881-882: the rmax that a thread of a group registered
\* with the keywords kw hands to relative_2d, through the row of the group
registered_rmax(kw) ==
  kernel_decode([gparam |-> <<param_row(kw)>>, m_nI |-> kw_nI(kw)], 0).rmax

\* relative_2d as the kernel calls it (line 975) for two agents inside the
\* arena, the first one of a group registered with or without rmax
Calls_relative_2d ==
  {[fn |-> "relative_2d", kw |-> kw, x0 |-> x0, y0 |-> 0, a0 |-> a0,
    x1 |-> x1, y1 |-> y1, a1 |-> 1,
    arena |-> g[1], arena_X |-> HalfExtent, arena_Y |-> HalfExtent,
    periodic_X |-> g[2], periodic_Y |-> g[3]] :
     kw \in {Config_presence} \cup {WithKw(Config_presence, "rmax", r) : r \in 1..HalfExtent},
     x0 \in -HalfExtent..HalfExtent, a0 \in 0..1,
     x1 \in -HalfExtent..HalfExtent, y1 \in -HalfExtent..HalfExtent,
     g \in {<<Arena_RECTANGULAR, TRUE, TRUE>>, <<Arena_RECTANGULAR, FALSE, FALSE>>,
            <<Arena_CIRCULAR, FALSE, FALSE>>}}

Call_relative_2d ==
  /\ args.fn = "relative_2d"
  /\ Return(relative_2d(args.x0, args.y0, args.a0, args.x1, args.y1, args.a1,
                        registered_rmax(args.kw), args.arena, args.arena_X,
                        args.arena_Y, args.periodic_X, args.periodic_Y))

\* Engine(arena=..., periodic=..., shape=...) as a simulation script
\* constructs it (line 304); a rectangular arena takes a flag per axis
Calls_Geometry ==
  LET shapes == {Ones(dimension, 2 * HalfExtent), <<2 * HalfExtent, 2 * HalfExtent + 2>>}
      lists  == {<<pX, pY>> : pX \in BOOLEAN, pY \in BOOLEAN}
  IN  {[fn |-> "Geometry", kw |-> kw] :
         kw \in {[shape |-> sh] : sh \in shapes}
           \cup {[shape |-> sh, periodic |-> l] : sh \in shapes, l \in lists}
           \cup {[shape |-> sh, arena |-> a] :
                   sh \in shapes, a \in {Arena_RECTANGULAR, Arena_CIRCULAR}}
           \cup {[shape |-> sh, arena |-> a, periodic |-> l] :
                   sh \in shapes, a \in {Arena_RECTANGULAR, Arena_CIRCULAR}, l \in lists}
           \cup {[shape |-> sh, arena |-> Arena_CIRCULAR, periodic |-> <<>>] : sh \in shapes}
           \cup {[shape |-> sh, arena |-> Arena_CIRCULAR, periodic_scalar |-> b] :
                   sh \in shapes, b \in BOOLEAN}}

\* the geometry constructed, whether a warning was issued, and the geom
\* array that run serialises from it for the kernel (lines 593-606)
Call_Geometry ==
  /\ args.fn = "Geometry"
  /\ Return([geom   |-> Geometry_init(args.kw),
             warned |-> Geometry_warns(args.kw),
             device |-> serial_geom(Geometry_init(args.kw))])

MaxSum == 80

\* line 1056 on the weighted sums up to MaxSum in magnitude, for the damax
\* of a quarter turn, a half turn and a full turn
Calls_angle_activation ==
  {[fn |-> "angle_activation", damax |-> d, WS |-> w] :
     d \in {1, 2, 4}, w \in -MaxSum..MaxSum}

Call_angle_activation ==
  /\ args.fn = "angle_activation"
  /\ Return(angle_activation(args.damax, args.WS))

\* Config_presence with the coefficients w and -w, and the heading noise n
Config_weighted(w, n) ==
  [damax |-> 2, nSa |-> 2, anoise |-> n,
   inputs  |-> << [perception |-> Perception_PRESENCE,
                   normalization |-> Normalization_NONE,
                   coefficients |-> <<w, -w>>] >>,
   outputs |-> << <<Output_REORIENTATION, Activation_ANGLE>> >>]

\* the thread of the first agent of a RIPO group of one or two agents in
\* the first launch of the kernel: the agent anywhere in the arena at the
\* default speed, the other one at the centre; weights 0, moderate or
\* large; with and without heading noise
Calls_CUDA_step ==
  {[fn |-> "CUDA_step",
    call |-> Call(Agent_RIPO, n, Config_weighted(w, an), "agents",
                  [position |-> SubSeq(<< <<x, y>>, <<0, 0>> >>, 1, n),
                   orientation |-> SubSeq(<<a, 0>>, 1, n),
                   speed |-> Default_vmax]),
    periodic |-> p, draw |-> 1] :
     n \in 1..2, w \in {0, 2, MaxSum}, an \in 0..1,
     x \in -HalfExtent..HalfExtent, y \in -HalfExtent..HalfExtent, a \in 0..3,
     p \in {<<TRUE, TRUE>>, <<FALSE, FALSE>>}}

\* lines 553-625: the device arrays of run for the engine of the call a
device_of(a) ==
  CUDA_init(add_group_agents(Agents_init, Groups_init, a.call.gtype, a.call.N,
                             a.call.kw, [pos |-> <<>>, alpha |-> <<>>]),
            add_group_groups(Groups_init, a.call.gtype, a.call.kw),
            Geometry_init([arena |-> Arena_RECTANGULAR,
                           shape |-> Ones(dimension, 2 * HalfExtent),
                           periodic |-> a.periodic]),
            0)

\* what thread 0 of step 1 stores: <<px, py, v, a>>
Call_CUDA_step ==
  /\ args.fn = "CUDA_step"
  /\ Return(kernel_thread(device_of(args), [rd |-> 0, wr |-> 1], 1,
                          <<args.draw, args.draw>>))

\* the coefficient block of the k-th input of a group: n numbers of its own
Block(k, n) == [ci \in 1..n |-> 10 * (k - 1) + ci]

\* a RIPO configuration of one ring and two slices whose inputs are the
\* presence inputs of the normalization modes ms, each with a block of
\* nOut*nG*nR*nSa coefficients for nG groups, and whose outputs are outs
Config_inputs(ms, outs, nG) ==
  [damax |-> 2, nSa |-> 2,
   inputs  |-> [k \in 1..Len(ms) |->
                  [perception |-> Perception_PRESENCE,
                   normalization |-> ms[k],
                   coefficients |-> Block(k, Len(outs) * nG * 2)]],
   outputs |-> outs]

Normalizations ==
  {Normalization_NONE, Normalization_SAME_RADIUS, Normalization_SAME_SLICE,
   Normalization_SAME_GROUP, Normalization_ALL}

OutputSets ==
  { << <<Output_REORIENTATION, Activation_ANGLE>> >>,
    << <<Output_REORIENTATION, Activation_ANGLE>>,
       <<Output_SPEED_MODULATION, Activation_SPEED>> >> }

\* the threads of the first launch for a group of one to three agents with
\* one or two presence inputs of any normalization mode: the first agent at
\* the centre, the others ahead of it and on its right
Calls_weighted_sum ==
  {[fn |-> "weighted_sum",
    call |-> Call(Agent_RIPO, n, Config_inputs(ms, outs, 1), "agents",
                  [position |-> SubSeq(<< <<0, 0>>, <<1, 0>>, <<0, -1>> >>, 1, n),
                   orientation |-> SubSeq(<<0, 1, 2>>, 1, n),
                   speed |-> Default_vmax]),
    periodic |-> <<TRUE, TRUE>>] :
     n \in 1..3, outs \in OutputSets,
     ms \in UNION {[1..m -> Normalizations] : m \in 1..2}}

\* lines 838-1047 for thread i of the first launch on the device arrays c:
\* the decoded row, the histogram and the weighted sum
thread_sum(c, i) ==
  LET D      == kernel_decode(c, c.group[i])
      i_pres == perceive_all(c, [rd |-> 0, wr |-> 1], D, i, 1, local_array(c))
  IN  [D |-> D, i_pres |-> i_pres,
       WS |-> weighted_sum(c, c.group[i], D, 0, D.kIref, i_pres)]

\* whether add_group raises, and for every agent what its thread computes
\* and stores
Call_weighted_sum ==
  /\ args.fn = "weighted_sum"
  /\ Return([raises |-> add_group_raises(args.call.gtype, args.call.N, args.call.kw,
                                         [pos |-> <<>>, alpha |-> <<>>]),
             sums   |-> [i \in 1..args.call.N |-> thread_sum(device_of(args), i)],
             stored |-> [i \in 1..args.call.N |->
                           kernel_thread(device_of(args), [rd |-> 0, wr |-> 1], i, <<0, 0>>)]])

\* a RIPO configuration with the zone radii rS (<<>>: none given) and nSa
\* slices, one presence input and one output, for an engine of one group
Config_grid(rS, nSa) ==
  LET kw == [damax |-> 2, nSa |-> nSa,
             inputs  |-> << [perception |-> Perception_PRESENCE,
                             normalization |-> Normalization_NONE,
                             coefficients |-> Block(1, (Len(rS) + 1) * nSa)] >>,
             outputs |-> << <<Output_REORIENTATION, Activation_ANGLE>> >>]
  IN  IF rS = <<>> THEN kw ELSE WithKw(kw, "rS", rS)

\* lines 862-959: the row of a group registered with kw as its threads
\* decode it in an engine of that one group
registered(kw) ==
  kernel_decode([gparam |-> <<param_row(kw)>>, m_nI |-> kw_nI(kw)], 0)

\* the zone of a neighbour at the offset z (after relative_2d) for a group
\* of zero to two zone radii and 1, 2 or 4 slices; below < 0: the neighbour
\* is a hair on the right of the axis of the agent's heading
Calls_zone_index ==
  {[fn |-> "zone_index", kw |-> Config_grid(rS, nSa), z |-> <<x, y>>, below |-> b] :
     rS \in {<<>>, <<1>>, <<2>>, <<1, 2>>, <<2, 3>>}, nSa \in {1, 2, 4},
     x \in -HalfExtent..HalfExtent, y \in -HalfExtent..HalfExtent, b \in {-1, 0}}

\* the radial index, the cell and the size of the histogram i_pres
Call_zone_index ==
  /\ args.fn = "zone_index"
  /\ Return([ri |-> radial_index(args.z, registered(args.kw).nR, registered(args.kw).rS),
             ig |-> zone_index(registered(args.kw), args.z, args.below),
             nR |-> registered(args.kw).nR,
             nSa |-> registered(args.kw).nSa,
             m_nCad |-> Len(args.kw.outputs) * kw_nR(args.kw) * kw_nSa(args.kw)])

Perceptions == {Perception_PRESENCE, Perception_ORIENTATION, Perception_FIELD}

\* a RIPO configuration of two slices for an engine of nG groups: zone radii
\* rS and maximal radius rmax (<<>>: not given), inputs of the perception
\* kinds ps, the second one normalized, each with a block of
\* nOut*nG*nR*nSa coefficients, and the outputs outs
Config_kinds(ps, rS, rmax, outs, nG) ==
  LET kw == [damax |-> 2, nSa |-> 2,
             inputs  |-> [k \in 1..Len(ps) |->
                            [perception |-> ps[k],
                             normalization |-> IF k = 2 THEN Normalization_SAME_SLICE
                                               ELSE Normalization_NONE,
                             coefficients |-> Block(k, Len(outs) * nG * (Len(rS) + 1) * 2)]],
             outputs |-> outs]
      kr == IF rS = <<>> THEN kw ELSE WithKw(kw, "rS", rS)
  IN  IF rmax = <<>> THEN kr ELSE WithKw(kr, "rmax", rmax[1])

\* a group registered before the others, with the shortest row, and one
\* registered after them, with the longest
Config_first == WithKw(Config_grid(<<>>, 1), "name", "first")
Config_last ==
  WithKw(WithKw(Config_grid(<<1, 2>>, 4), "name", "last"), "inputs",
         << [perception |-> Perception_PRESENCE, normalization |-> Normalization_NONE,
             coefficients |-> Block(1, 60)] >>)

\* the add_group calls of an engine of one to three RIPO groups, the group
\* `agents` among them, and the index of that group
Calls_kernel_decode ==
  {[fn |-> "kernel_decode",
    kws |-> (IF b = 1 THEN <<Config_first>> ELSE <<>>)
              \o <<WithKw(Config_kinds(ps, rS, rmax, outs, 1 + b + a), "name", "agents")>>
              \o (IF a = 1 THEN <<Config_last>> ELSE <<>>),
    gid |-> b] :
     b \in 0..1, a \in 0..1, ps \in UNION {[1..m -> Perceptions] : m \in 1..2},
     rS \in {<<>>, <<1>>}, rmax \in {<<>>, <<2>>}, outs \in OutputSets}

RECURSIVE groups_of(_, _)
\* lines 413-431 for the first n of the add_group calls kws, all RIPO
groups_of(kws, n) ==
  IF n = 0 THEN Groups_init
  ELSE add_group_groups(groups_of(kws, n - 1), Agent_RIPO, kws[n])

RECURSIVE decoded_inputs(_, _, _, _, _, _)
\* lines 911-941 and 1017-1047: what the kernel reads for each of the inputs
\* from iS on, k being the column it takes for input iS and nIn the number
\* of weights stored before it: the perception kind and the normalization
\* mode at k and k+1, and the weights stored for it (none for a kind that
\* no case of the match handles)
decoded_inputs(c, gid, D, iS, k, nIn) ==
  IF iS >= D.nIs THEN <<>>
  ELSE IF gparam_at(c, gid, k) \in {Perception_PRESENCE, Perception_ORIENTATION}
       THEN << [perception |-> gparam_at(c, gid, k),
                normalization |-> gparam_at(c, gid, k + 1),
                coefficients |-> SubSeq(D.weights, nIn + 1, nIn + D.nc_ADI)] >>
              \o decoded_inputs(c, gid, D, iS + 1, k + D.nc_ADI + 2, nIn + D.nc_ADI)
       ELSE << [perception |-> gparam_at(c, gid, k),
                normalization |-> gparam_at(c, gid, k + 1),
                coefficients |-> <<>>] >>
              \o decoded_inputs(c, gid, D, iS + 1, k, nIn)

\* lines 948-959: the pair the kernel reads for each output
decoded_outputs(c, gid, D) ==
  [io \in 1..D.nOut |-> << gparam_at(c, gid, D.kOref + (io - 1) * 2),
                           gparam_at(c, gid, D.kOref + (io - 1) * 2 + 1) >>]

\* the row of group gid as the kernel of an engine with the groups G reads it
decoded(G, gid) ==
  LET c == [gparam |-> G.param, m_nI |-> max(G.l_nI)]
      D == kernel_decode(c, gid)
  IN  [D |-> D, nG |-> G.N, rows |-> Len(G.param),
       inputs  |-> decoded_inputs(c, gid, D, 0, D.kIref, 0),
       outputs |-> decoded_outputs(c, gid, D)]

Call_kernel_decode ==
  /\ args.fn = "kernel_decode"
  /\ Return(decoded(groups_of(args.kws, Len(args.kws)), args.gid))

\* the keyword arguments kw with the speed limits vmin and vmax (<<>>: not
\* given) and the speed noise vnoise
Config_speed(kw, vmin, vmax, vnoise) ==
  LET kn == WithKw(kw, "vnoise", vnoise)
      km == IF vmin = <<>> THEN kn ELSE WithKw(kn, "vmin", vmin[1])
  IN  IF vmax = <<>> THEN km ELSE WithKw(km, "vmax", vmax[1])

\* the thread of the only agent of a RIPO group in the first launch: the
\* agent at the centre with any heading and an initial speed of 0 to 2, the
\* limits of the speed given or not, with and without speed noise, the
\* normal sample being -1, 0 or 1
Calls_kernel_update ==
  {[fn |-> "kernel_update",
    call |-> Call(Agent_RIPO, 1, Config_speed(Config_weighted(0, 0), vmin, vmax, vn),
                  "agents",
                  [position |-> << <<0, 0>> >>, orientation |-> <<a>>, speed |-> V]),
    periodic |-> <<TRUE, TRUE>>, draw |-> d] :
     vmin \in {<<>>, <<0>>, <<1>>, <<2>>}, vmax \in {<<>>, <<1>>, <<2>>},
     vn \in 0..1, V \in 0..2, a \in 0..3, d \in -1..1}

\* what the thread stores: <<px, py, v, a>>
Call_kernel_update ==
  /\ args.fn = "kernel_update"
  /\ Return(kernel_thread(device_of(args), [rd |-> 0, wr |-> 1], 1, <<args.draw, 0>>))

MaxOutputs == 2
MaxSlices == 4
MaxRings == 2

\* the lists of n outputs
OutputLists(n) == [1..n -> Actions]

\* Coefficients(engine, i, C).to_weights() for an engine of one or two
\* groups and up to MaxOutputs outputs, the input i without a grid or with
\* a grid of nR rings of nSa slices, C being CoeffSet.IGNORE or a list of
\* nC distinct positive numbers
Calls_to_weights ==
  {[fn |-> "to_weights", outputs |-> o, nG |-> nG, grid |-> g, ignore |-> ig,
    C |-> [k \in 1..(Len(o) * (IF g = <<>> THEN 1 ELSE nG * g[1].nZ)) |-> k]] :
     o \in UNION {OutputLists(n) : n \in 1..MaxOutputs},
     nG \in 1..2,
     g \in {<<>>} \cup {<<[nZ |-> nR * nSa, nSa |-> nSa]>> :
                          nR \in 1..MaxRings, nSa \in 1..MaxSlices},
     ig \in BOOLEAN}

\* the weights returned, and self.C before and after the call
Call_to_weights ==
  /\ args.fn = "to_weights"
  /\ LET Co == Coefficients_init(args.outputs, args.nG, args.grid, args.ignore, args.C)
     IN  Return([W |-> to_weights(Co, args.outputs), C |-> Co.C, nCpO |-> Co.nCpO])

DirectCalls ==
  Calls_assign_rect \cup {c \in Calls_assign_2d : OnLattice(c)} \cup Calls_relative_2d
    \cup Calls_Geometry \cup Calls_to_weights
    \cup Calls_angle_activation \cup Calls_CUDA_step \cup Calls_weighted_sum
    \cup Calls_zone_index
    \cup Calls_kernel_decode
    \cup Calls_kernel_update

InitDevice == EngineIdle /\ args \in DirectCalls /\ result = [done |-> FALSE]

NextDevice ==
  \/ Call_assign_rect
  \/ Call_assign_2d
  \/ Call_relative_2d
  \/ Call_Geometry
  \/ Call_to_weights
  \/ Call_angle_activation
  \/ Call_CUDA_step
  \/ Call_weighted_sum
  \/ Call_zone_index
  \/ Call_kernel_decode
  \/ Call_kernel_update

SpecDevice == InitDevice /\ [][NextDevice]_vars

(***************************************************************************)
(* Claims about the registration of groups (SpecGroups).                   *)
(***************************************************************************)
\* long is short followed by zeros only
IsZeroPadded(long, short) ==
  /\ Len(long) >= Len(short)
  /\ \A k \in 1..Len(long) : long[k] = IF k <= Len(short) THEN short[k] ELSE 0

Rows(table) == Len(table)

Cols(table) == IF table = <<>> THEN 0 ELSE Len(table[1])

\* every call so far gave a name of its own, so call g registered group g-1
NamesDistinct == groups.N = Len(calls)

\* C2: after add_group calls with distinct names the table has one row per
\* registered group, and the row of every RIPO group g (the row the kernel
\* reads as gparam[group[i]] for its agents) is that group's serialisation,
\* up to trailing zeros.
C2_OneRowPerGroup ==
  NamesDistinct =>
    /\ Rows(groups.param) = groups.N
    /\ \A g \in 1..Len(calls) :
         calls[g].gtype = Agent_RIPO =>
           /\ g <= Rows(groups.param)
           /\ IsZeroPadded(groups.param[g], param_row(calls[g].kw))

\* C3: registration is append-only.  When the first call registers a RIPO
\* group A, the first row of the table is the row of A up to trailing zeros,
\* whatever is registered after A; and no registration changes an entry of
\* a row that is already in the table (it may only extend it with zeros).
C3_AppendOnly ==
  /\ [](calls # <<>> /\ calls[1].gtype = Agent_RIPO =>
          /\ groups.param # <<>>
          /\ IsZeroPadded(groups.param[1], param_row(calls[1].kw)))
  /\ [][\A r \in 1..Rows(groups.param) :
          /\ r <= Rows(groups'.param)
          /\ IsZeroPadded(groups'.param[r], groups.param[r])]_vars

\* C3 witness: RIPO group A, then a RIPO group B with a longer row: the
\* table holds both and the row of A has been padded.
C3_Witness ==
  /\ Len(calls) = 2
  /\ calls[1].gtype = Agent_RIPO /\ calls[2].gtype = Agent_RIPO
  /\ Rows(groups.param) = 2
  /\ Len(groups.param[1]) > Len(param_row(calls[1].kw))

C8_RowCounts ==
  /\ Len(agents.pos) = agents.N
  /\ Len(agents.vel) = agents.N
  /\ Len(agents.param) = agents.N
  /\ Len(agents.atype) = agents.N
  /\ Len(agents.group) = agents.N

\* the radii s are strictly ascending
StrictlyAscending(s) == \A k \in 1..(Len(s) - 1) : s[k] < s[k + 1]

\* C21: no call of add_group with a list of zone radii that is not strictly
\* ascending has been accepted, and the radii of every row of the parameter
\* table (columns 2 .. nR of a row that starts with nR, nSa) are strictly
\* increasing.
C21_RadiiStrictlyAscending ==
  /\ \A k \in DOMAIN calls :
       (calls[k].gtype = Agent_RIPO /\ "rS" \in DOMAIN calls[k].kw)
         => StrictlyAscending(calls[k].kw.rS)
  /\ \A g \in DOMAIN groups.param :
       StrictlyAscending(SubSeq(groups.param[g], dimension + 1,
                                dimension + groups.param[g][1] - 1))

(***************************************************************************)
(* Claims about the registration of named groups (SpecNames).              *)
(***************************************************************************)
\* C23: every agent has the type recorded in groups.atype for the group
\* whose id it carries, so that the agents of one group have one type.
C23_GroupHasOneType ==
  \A i \in 1..Len(agents.group) :
    agents.atype[i] = groups.atype[agents.group[i] + 1]

\* the counts nR, nZ, nCaf and nI of the group an add_group call describes
CountsOfCall(c) ==
  IF c.gtype = Agent_RIPO
  THEN <<kw_nR(c.kw), kw_nR(c.kw) * kw_nSa(c.kw),
         Len(c.kw.outputs) * kw_nR(c.kw) * kw_nSa(c.kw), kw_nI(c.kw)>>
  ELSE <<0, 0, 0, 0>>

\* the lists l_nR, l_nZ, l_nCaf and l_nI
CountLists == <<groups.l_nR, groups.l_nZ, groups.l_nCaf, groups.l_nI>>

\* C30: after any sequence of add_group calls each of l_nR, l_nZ, l_nCaf and
\* l_nI has one entry per registered group, the entry of a group holding
\* the count of the call that registered it, so that once a group is
\* registered the maximum of each list is defined and is at least the count
\* of every call.
C30_OneEntryPerGroup ==
  \A l \in 1..4 :
    /\ Len(CountLists[l]) = groups.N
    /\ \A k \in 1..Len(calls) :
         (\A m \in 1..(k - 1) : group_name(calls[m].gtype, calls[m].kw)
                                  # group_name(calls[k].gtype, calls[k].kw))
           => CountLists[l][IndexOf(groups.names,
                                    group_name(calls[k].gtype, calls[k].kw)) + 1]
                = CountsOfCall(calls[k])[l]
    /\ \A k \in 1..Len(calls) : max(CountLists[l]) >= CountsOfCall(calls[k])[l]

(***************************************************************************)
(* Claims about the simulation (Spec).                                     *)
(***************************************************************************)
\* every thread of the launch is through the kernel
ThreadsDone == \A i \in DOMAIN thread : thread[i].pc = "done"

\* what the kernel has stored for agent k in the pair it writes
Stored(c, l, k) ==
  <<kernel_p1(c, l)[k][1], kernel_p1(c, l)[k][2],
    kernel_v1(c, l)[k][1], kernel_v1(c, l)[k][2]>>

\* The initial state: what run put into the storage as step 0
InitialState == storage.inserted[1]

\* C1: once the simulation runs, the published position of every agent of
\* type FIXED is the position it was registered with, after any number of
\* steps and whatever its speed and heading.
C1_FixedAgentsStay ==
  cuda.allocated =>
    \A i \in 1..Len(agents.pos) :
      agents.atype[i] = Agent_FIXED => agents.pos[i] = InitialState.pos[i]

\* the buffers of step t as the statement of C5 numbers them
BuffersAsStated(t) == [rd |-> t % 2, wr |-> (t + 1) % 2]

\* the buffers of step t the other way round
BuffersPrevious(t) == [rd |-> (t + 1) % 2, wr |-> t % 2]

\* the launch of step launch.i, its threads through, has left the pair b.rd
\* as it was at the launch and has stored into the pair b.wr what the
\* kernel computes from the pair b.rd
LaunchUsed(b) ==
  /\ kernel_p0(cuda, b) = kernel_p0(launch.c_in, b)
  /\ kernel_v0(cuda, b) = kernel_v0(launch.c_in, b)
  /\ \A k \in DOMAIN thread :
       Stored(cuda, b, k) = kernel_thread(launch.c_in, b, k, rng[k])

\* C5 as stated: the launch of step t reads the pair t mod 2 and writes the
\* pair (t+1) mod 2, pair 0 being (p0, v0).
C5_ReadsPairOfStep ==
  (launch.i >= 1 /\ ThreadsDone) => LaunchUsed(BuffersAsStated(launch.i))

\* C5 amended: the launch of step t reads the pair (t+1) mod 2 and writes
\* the pair t mod 2, pair 0 being (p0, v0); the first step is step 1 and it
\* reads pair 0, which holds the initial state.
C5_ReadsPairOfPreviousStep ==
  (launch.i >= 1 /\ ThreadsDone) =>
    /\ LaunchUsed(BuffersPrevious(launch.i))
    /\ launch.i = 1 =>
         /\ kernel_p0(launch.c_in, BuffersPrevious(1)) = InitialState.pos
         /\ kernel_v0(launch.c_in, BuffersPrevious(1)) = InitialState.vel
         /\ BuffersPrevious(1).rd = 0

\* an even step has run to its end: it has read the pair (p1, v1)
C5_Witness ==
  /\ launch.i = 2 /\ launch.running /\ ThreadsDone
  /\ kernel_p0(cuda, launch) = cuda.p1
  /\ cuda.p0 # launch.c_in.p0

\* C6: during a launch a step of the thread of agent i changes at most row
\* i of the pair written, no step changes the pair read, and for every
\* interleaving the pair written holds, once the threads are through, what
\* each thread computes alone from the pair read as it was at the launch.
C6_ThreadsDisjoint ==
  /\ [](launch.i >= 1 /\ ThreadsDone =>
          \A k \in DOMAIN thread :
            Stored(cuda, launch, k) = kernel_thread(launch.c_in, launch, k, rng[k]))
  /\ [][launch.i >= 1 /\ launch' = launch =>
          /\ kernel_p0(cuda', launch) = kernel_p0(cuda, launch)
          /\ kernel_v0(cuda', launch) = kernel_v0(cuda, launch)
          /\ \A k \in DOMAIN thread :
               Stored(cuda', launch, k) # Stored(cuda, launch, k)
                 => thread'[k] # thread[k]]_vars

\* in the middle of a launch: a thread has stored a new state for its agent
\* while another one is still scanning the agents
C6_Witness ==
  \E i, k \in DOMAIN thread :
    /\ thread[i].pc = "done" /\ thread[k].pc = "scan" /\ thread[k].j > 1
    /\ kernel_p1(cuda, launch)[i] # kernel_p0(cuda, launch)[i]

\* C7: when step(t) has returned, agents.pos and agents.vel are the pair
\* written by the launch of step t, which is another pair than the one it
\* read and is the state stored for step t; and the host copies it only
\* when every thread of that launch is through.
C7_PublishedAfterSync ==
  /\ [](pc \in {"loop", "ended"} /\ launch.i >= 1 =>
          /\ agents.pos = kernel_p1(cuda, launch)
          /\ agents.vel = kernel_v1(cuda, launch)
          /\ launch.wr # launch.rd
          /\ \A k \in DOMAIN thread :
               Stored(cuda, launch, k) = kernel_thread(launch.c_in, launch, k, rng[k])
          /\ storage.inserted[Len(storage.inserted)] =
               [step |-> launch.i, pos |-> agents.pos, vel |-> agents.vel])
  /\ [][pc # "setup" /\ agents' # agents =>
          /\ ThreadsDone
          /\ agents'.pos = kernel_p1(cuda, launch)
          /\ agents'.vel = kernel_v1(cuda, launch)]_vars

\* the second step has returned and has published a state that is neither
\* the initial one nor the one that step read
C7_Witness ==
  /\ pc = "loop" /\ launch.i = 2 /\ ~ launch.running
  /\ agents.pos # InitialState.pos
  /\ agents.pos # kernel_p0(cuda, launch)

\* the agents of the group of agent i
GroupSize(i) == Cardinality({k \in 1..Len(cuda.group) : cuda.group[k] = cuda.group[i]})

\* C9: once the thread of a RIPO agent i whose group has a presence input
\* and no cutoff has scanned the agents, its histogram i_pres sums to the
\* size of i's group minus one, whatever other groups there are.
C9_HistogramCountsGroup ==
  \A i \in DOMAIN thread :
    ( /\ thread[i].pc \in {"update", "done"}
      /\ cuda.atype[i] = Agent_RIPO
      /\ kernel_decode(cuda, cuda.group[i]).pres
      /\ kernel_decode(cuda, cuda.group[i]).rmax = <<>> )
    => SumSeq(thread[i].i_pres) = GroupSize(i) - 1

\* the positions the kernel can be given: the published ones and the ones
\* in the pair a launch reads
PositionArrays ==
  {agents.pos} \cup (IF launch.i >= 1 THEN {kernel_p0(cuda, launch)} ELSE {})

C20_OneInsertPerStep ==
  /\ [](\A k \in DOMAIN storage.inserted : storage.inserted[k].step = k - 1)
  /\ [](launch.i >= 1 =>
          Len(storage.inserted) = launch.i + (IF launch.running THEN 0 ELSE 1))
  /\ [][storage'.inserted # storage.inserted =>
          /\ Len(storage'.inserted) = Len(storage.inserted) + 1
          /\ SubSeq(storage'.inserted, 1, Len(storage.inserted)) = storage.inserted
          /\ \/ /\ storage.inserted = <<>>
                /\ launch.i = 0 /\ ~ cuda.allocated
                /\ storage'.inserted[1] =
                     [step |-> 0, pos |-> agents.pos, vel |-> agents.vel]
             \/ /\ launch.i >= 1 /\ launch.running /\ ThreadsDone
                /\ storage'.inserted[Len(storage'.inserted)] =
                     [step |-> launch.i, pos |-> kernel_p1(cuda, launch),
                      vel |-> kernel_v1(cuda, launch)]
                /\ \A k \in DOMAIN thread :
                     Stored(cuda, launch, k)
                       = kernel_thread(launch.c_in, launch, k, rng[k])]_vars

\* a run of two steps is over: three states stored, the last one another
\* than the first
C20_Witness ==
  /\ pc = "ended"
  /\ Len(storage.inserted) = MaxSteps
  /\ storage.inserted[MaxSteps].step = MaxSteps - 1
  /\ storage.inserted[MaxSteps].pos # storage.inserted[1].pos

\* C24: the launches of a run of steps[1] steps are those of the steps 1, 2,
\* ..., steps[1]-1 in that order, one each, and the run ends after the last;
\* the first launch reads the pair that holds the initial state, and every
\* later one reads the pair that the launch before it wrote and whose
\* content the host has published.
C24_LaunchesInOrder ==
  /\ [](launch.i >= 1 =>
          /\ launch.i <= steps[1] - 1
          /\ launch.i = 1 =>
               /\ kernel_p0(launch.c_in, launch) = InitialState.pos
               /\ kernel_v0(launch.c_in, launch) = InitialState.vel)
  /\ [](pc = "ended" => launch.i = steps[1] - 1 /\ ~ launch.running)
  /\ [][launch'.i # launch.i =>
          /\ launch'.i = launch.i + 1
          /\ ~ launch.running /\ launch'.running
          /\ launch.i >= 1 =>
               /\ launch'.rd = launch.wr
               /\ kernel_p0(cuda', launch') = kernel_p1(cuda, launch)
               /\ kernel_v0(cuda', launch') = kernel_v1(cuda, launch)
               /\ kernel_p0(cuda', launch') = agents.pos
               /\ \A k \in DOMAIN thread :
                    Stored(cuda, launch, k)
                      = kernel_thread(launch.c_in, launch, k, rng[k])]_vars

\* the launch of the second step is running on a pair that no longer holds
\* the initial state
C24_Witness ==
  /\ launch.i = 2 /\ launch.running
  /\ steps = <<MaxSteps>>
  /\ kernel_p0(cuda, launch) # InitialState.pos

\* C28: run() without animation does nothing when the number of steps is
\* undefined or no storage is attached: it returns before the storage is
\* initialised, before any device buffer is allocated and before any launch,
\* and leaves the agents as they were.
C28_RunWithoutStepsOrStorage ==
  /\ [](pc = "returned" =>
          /\ storage.inserted = <<>>
          /\ ~ cuda.allocated
          /\ launch = [i |-> 0, running |-> FALSE])
  /\ [][(pc = "setup" /\ (steps = <<>> \/ ~ storage.attached) /\ pc' # "setup") =>
          /\ pc' = "returned"
          /\ UNCHANGED <<agents, groups, geom, storage, cuda, launch, thread, step_i>>]_vars

\* run() has returned with its warning from an engine that holds agents
C28_Witness == pc = "returned" /\ agents.N > 0

(***************************************************************************)
(* Claims about the simulation of a single agent (SpecSingle).             *)
(***************************************************************************)
\* the simulation runs one RIPO agent without noise in an arena whose two
\* axes are reflective
SingleInReflectiveArena ==
  /\ cuda.allocated
  /\ Len(cuda.p0) = 1
  /\ cuda.atype[1] = Agent_RIPO
  /\ cuda.aparam[1][4] = 0 /\ cuda.aparam[1][5] = 0
  /\ cuda.geom[1] = Arena_RECTANGULAR
  /\ cuda.geom[4] = 0 /\ cuda.geom[5] = 0

\* C11: a single RIPO agent registered with speed zero and no noise, in a
\* rectangular arena without periodic axis, is published after every step
\* at the position it was registered at, with speed zero.
C11_AgentAtRestStays ==
  (SingleInReflectiveArena /\ InitialState.vel[1][1] = 0) =>
    /\ agents.pos = InitialState.pos
    /\ agents.vel[1][1] = 0

\* two steps have returned for an agent at rest on a wall
C11_Witness ==
  /\ SingleInReflectiveArena /\ InitialState.vel[1][1] = 0
  /\ pc = "loop" /\ launch.i = 2 /\ ~ launch.running
  /\ agents.pos[1][1] = HalfExtent

(***************************************************************************)
(* Claims about the functions called directly (SpecDevice).                *)
(***************************************************************************)
\* the call of fn has returned
Returned(fn) == args.fn = fn /\ result.done

\* the coordinate p and the velocity component w returned for the candidate
\* x and the component vx on a reflective axis of half extent aX
Mirrored(x, vx, aX, p, w) ==
  /\ x > aX => p = 2 * aX - x /\ w = -vx
  /\ x < -aX => p = -2 * aX - x /\ w = -vx
  /\ (-aX <= x /\ x <= aX) => p = x /\ w = vx

\* the velocity after the rectangular branch of the call args of assign_2d
VelocityAfter ==
  << IF ~ args.periodic_X /\ Abs(args.z1[1]) > args.arena_X
     THEN -rect(args.v, args.a)[1] ELSE rect(args.v, args.a)[1],
     IF ~ args.periodic_Y /\ Abs(args.z1[2]) > args.arena_Y
     THEN -rect(args.v, args.a)[2] ELSE rect(args.v, args.a)[2] >>

\* C12: in a rectangular arena a candidate beyond a reflective wall is
\* mirrored about it (2*extent - x, or -2*extent - x) and the velocity
\* component normal to that wall, and no other, is negated; each axis on
\* its own, so that beyond a corner both are; the heading returned is that
\* of the velocity so negated.
C12_Reflection ==
  /\ Returned("assign_rect") =>
       /\ ~ args.periodic_X =>
            Mirrored(args.z1[1], args.zv[1], args.arena_X,
                     result.value[1], result.value[3])
       /\ ~ args.periodic_Y =>
            Mirrored(args.z1[2], args.zv[2], args.arena_Y,
                     result.value[2], result.value[4])
       /\ args.periodic_X => result.value[3] = args.zv[1]
       /\ args.periodic_Y => result.value[4] = args.zv[2]
  /\ (Returned("assign_2d") /\ args.arena = Arena_RECTANGULAR /\ args.v # 0) =>
       /\ <<result.value[3], result.value[4]>> = polar(VelocityAfter)
       /\ ~ args.periodic_X =>
            Mirrored(args.z1[1], 0, args.arena_X, result.value[1], 0)
       /\ ~ args.periodic_Y =>
            Mirrored(args.z1[2], 0, args.arena_Y, result.value[2], 0)

\* a candidate beyond a corner of two reflective walls, the velocity having
\* a component on each axis: both are negated
C12_Witness ==
  /\ Returned("assign_rect")
  /\ ~ args.periodic_X /\ ~ args.periodic_Y
  /\ args.z1[1] > args.arena_X /\ args.z1[2] < -args.arena_Y
  /\ args.zv[1] # 0 /\ args.zv[2] # 0
  /\ result.value[3] = -args.zv[1] /\ result.value[4] = -args.zv[2]

\* C13: the boundary resolution keeps the magnitude of the speed: the
\* velocity out of the rectangular branch has the norm of the one that went
\* in, and assign_2d returns on a rectangular and on a circular arena a
\* speed of the magnitude it was given (the speed itself, if that is not
\* negative).
C13_SpeedKept ==
  /\ Returned("assign_rect") =>
       Norm2(<<result.value[3], result.value[4]>>) = Norm2(args.zv)
  /\ Returned("assign_2d") =>
       /\ Abs(result.value[3]) = Abs(args.v)
       /\ args.v >= 0 => result.value[3] = args.v

\* a bounce off the circular wall, and the agent is put back inside
C13_Witness ==
  /\ Returned("assign_2d")
  /\ args.arena = Arena_CIRCULAR
  /\ args.v > 0
  /\ Norm2(args.z1) > Sq(args.arena_X)
  /\ Norm2(<<result.value[1], result.value[2]>>) < Sq(args.arena_X)

\* the coordinate p returned for the candidate x on a periodic axis of half
\* extent aX is x shifted by the extent at most once
Shifted(x, aX, p) == p \in {x, x - 2 * aX, x + 2 * aX}

\* C14: on a periodic axis assign_2d returns for every candidate a
\* coordinate inside the arena, the candidate shifted by the extent, and
\* the velocity component of that axis as given; with both axes periodic
\* the speed it was given and the heading it was given (up to full turns).
C14_WrapsEveryCandidate ==
  /\ (Returned("assign_rect") /\ args.periodic_X) =>
       /\ Abs(result.value[1]) <= args.arena_X
       /\ Shifted(args.z1[1], args.arena_X, result.value[1])
       /\ result.value[3] = args.zv[1]
  /\ (Returned("assign_2d") /\ args.arena = Arena_RECTANGULAR
        /\ args.periodic_X /\ args.periodic_Y /\ args.v > 0) =>
       /\ Abs(result.value[1]) <= args.arena_X
       /\ Abs(result.value[2]) <= args.arena_Y
       /\ result.value[3] = args.v
       /\ (result.value[4] - args.a) % 4 = 0

\* the offset between the two agents of the call args of relative_2d,
\* before the cutoff and the rotation
OffsetOfCall ==
  relative_offset(args.x0, args.y0, args.x1, args.y1, args.arena,
                  args.arena_X, args.arena_Y, args.periodic_X, args.periodic_Y)

AsksPeriodic ==
  \/ "periodic" \in DOMAIN args.kw /\ \E d \in DOMAIN args.kw.periodic : args.kw.periodic[d]
  \/ "periodic_scalar" \in DOMAIN args.kw /\ args.kw.periodic_scalar

\* the call args of Geometry is for a circular arena
AsksCircular == "arena" \in DOMAIN args.kw /\ args.kw.arena = Arena_CIRCULAR

\* C16: a circular arena is constructed whatever periodicity is asked for:
\* its periodicity is off, the two periodicity flags of the geom array of
\* the kernel are 0, and a warning is issued if a periodic boundary was
\* asked for.
C16_CircularNeverPeriodic ==
  (Returned("Geometry") /\ AsksCircular) =>
    /\ result.value.geom.arena = Arena_CIRCULAR
    /\ result.value.geom.periodic = FALSE
    /\ result.value.device[1] = Arena_CIRCULAR
    /\ result.value.device[4] = 0
    /\ result.value.device[5] = 0
    /\ AsksPeriodic => result.value.warned

\* a circular arena asked to be periodic on both axes
C16_Witness ==
  /\ Returned("Geometry")
  /\ AsksCircular
  /\ "periodic" \in DOMAIN args.kw
  /\ args.kw.periodic = <<TRUE, TRUE>>
  /\ result.value.warned
  /\ result.value.device[4] = 0

\* the raw coefficients of the call args of to_weights
RawCoefficients ==
  IF args.ignore THEN Ones(Len(result.value.C), 0) ELSE args.C

\* every output of the call args is a speed modulation or a reorientation
PlanarOutputs ==
  \A n \in DOMAIN args.outputs :
    args.outputs[n] \in {Action_SPEED_MODULATION, Action_REORIENTATION}

\* C17: for a gridded input and outputs that are speed modulations or
\* reorientations, the weight at k = outputIndex*zonesPerOutput + j is
\* C[k] or -C[k]: -C[k] for a reorientation exactly when (j mod nSa) >=
\* nSa/2, and for a speed modulation exactly when ((j + nSa/4) mod nSa) >=
\* nSa/2; without a grid the weights are the coefficients.
C17_SignRule ==
  (Returned("to_weights") /\ PlanarOutputs) =>
    /\ DOMAIN result.value.W = DOMAIN RawCoefficients
    /\ args.grid = <<>> => result.value.W = RawCoefficients
    /\ args.grid # <<>> =>
         \A i \in 0..(Len(args.outputs) - 1) : \A j \in 0..(result.value.nCpO - 1) :
           LET k   == result.value.nCpO * i + j + 1
               nSa == args.grid[1].nSa
               neg == IF args.outputs[i + 1] = Action_REORIENTATION
                      THEN 2 * (j % nSa) >= nSa
                      ELSE ((4 * j + nSa) % (4 * nSa)) >= 2 * nSa
           IN  result.value.W[k] = IF neg THEN -RawCoefficients[k] ELSE RawCoefficients[k]

\* a speed modulation and a reorientation on a grid of four slices: the
\* first keeps slices 0 and 3, the second slices 0 and 1
C17_Witness ==
  /\ Returned("to_weights")
  /\ args.grid # <<>> /\ args.grid[1].nSa = MaxSlices /\ ~ args.ignore
  /\ args.outputs = <<Action_SPEED_MODULATION, Action_REORIENTATION>>
  /\ result.value.W[2] < 0 /\ result.value.W[4] > 0
  /\ result.value.W[result.value.nCpO + 2] > 0
  /\ result.value.W[result.value.nCpO + 4] < 0

\* C18: for every list of outputs and every input, the weights returned by
\* to_weights are as many as the raw coefficients (outputs x coefficients
\* per output), and the raw coefficients stored are as before the call.
C18_WeightsAsLongAsCoefficients ==
  Returned("to_weights") =>
    /\ Len(result.value.W) = Len(RawCoefficients)
    /\ Len(RawCoefficients) = Len(args.outputs) * result.value.nCpO
    /\ result.value.C = RawCoefficients

\* the agent of the call args of CUDA_step, as registered
AgentOfCall ==
  [z0 |-> args.call.kw.initial_condition.position[1],
   a  |-> args.call.kw.initial_condition.orientation[1],
   v  |-> args.call.kw.initial_condition.speed]

\* the weighted sum of the agent of the call args of CUDA_step is 0: it
\* has no neighbour, or all its weights are 0
NothingWeighs ==
  \/ args.call.N = 1
  \/ \A k \in DOMAIN args.call.kw.inputs[1].coefficients :
       args.call.kw.inputs[1].coefficients[k] = 0

\* the agent of the call args of CUDA_step, going straight on, stays inside
\* the arena
StaysInside ==
  /\ Abs(AgentOfCall.z0[1] + rect(AgentOfCall.v, AgentOfCall.a)[1]) <= HalfExtent
  /\ Abs(AgentOfCall.z0[2] + rect(AgentOfCall.v, AgentOfCall.a)[2]) <= HalfExtent

\* a mobile agent whose weighted sum is 0 and whose heading noise is 0
\* keeps its heading (up to full turns) and its speed, and advances along
\* it, across a step that does not hit a boundary
HeadingKept ==
  ( /\ Returned("CUDA_step")
    /\ NothingWeighs
    /\ args.call.kw.anoise = 0
    /\ StaysInside ) =>
      /\ (result.value[4] - AgentOfCall.a) % 4 = 0
      /\ result.value[3] = AgentOfCall.v
      /\ result.value[1] = AgentOfCall.z0[1] + rect(AgentOfCall.v, AgentOfCall.a)[1]
      /\ result.value[2] = AgentOfCall.z0[2] + rect(AgentOfCall.v, AgentOfCall.a)[2]

InputsOfCall == args.call.kw.inputs

\* the weighted sum that thread i of the call args computes
SumOf(i) == result.value.sums[i]

\* what a presence input without normalization adds to the weighted sum of
\* thread i as the kernel computes it: the histogram times the weights
\* weights[0 .. nc_ADI-1]
KernelTerm(i) ==
  SumSeq([ci \in 1..SumOf(i).D.nc_ADI |->
            SumOf(i).i_pres[ci] * SumOf(i).D.weights[ci]])

\* C22: a group whose presence inputs have any normalization mode is
\* registered; the thread of each of its agents stores a state; an input of
\* a mode other than NONE adds 0 to the weighted sum (the sum is what the
\* inputs of mode NONE add), and the inputs after it and the outputs are
\* decoded from their own columns: the weights are the blocks in the order
\* of the inputs and the activation of the reorientation is the one given.
C22_NormalizedInputIsNeutral ==
  Returned("weighted_sum") =>
    /\ ~ result.value.raises
    /\ \A i \in 1..args.call.N :
         /\ Len(result.value.stored[i]) = 4
         /\ SumOf(i).WS =
              Cardinality({k \in DOMAIN InputsOfCall :
                             InputsOfCall[k].normalization = Normalization_NONE})
                * KernelTerm(i)
         /\ SumOf(i).D.nIs = Len(InputsOfCall)
         /\ SumOf(i).D.weights =
              Flatten([k \in DOMAIN InputsOfCall |-> InputsOfCall[k].coefficients])
         /\ SumOf(i).D.kOref
              = SumOf(i).D.kIref + Len(InputsOfCall) * (SumOf(i).D.nc_ADI + 2)
         /\ SumOf(i).D.Out_da = Activation_ANGLE
         /\ (\A k \in DOMAIN InputsOfCall :
               InputsOfCall[k].normalization # Normalization_NONE)
              => /\ SumOf(i).WS = 0
                 /\ result.value.stored[i][4] = args.call.kw.initial_condition.orientation[i]

\* an agent that sees two others, its first input normalized over the
\* group and its second one not: the sum is the one of the second input
C22_Witness ==
  /\ Returned("weighted_sum")
  /\ args.call.N = 3
  /\ Len(InputsOfCall) = 2
  /\ InputsOfCall[1].normalization = Normalization_SAME_GROUP
  /\ InputsOfCall[2].normalization = Normalization_NONE
  /\ SumSeq(SumOf(1).i_pres) = 2
  /\ SumOf(1).WS # 0

\* C25: for a group whose presence inputs have no normalization, the
\* weighted sum of every thread is the sum over the inputs of the histogram
\* times the coefficient block of that input.
C25_SumOverOwnBlocks ==
  ( /\ Returned("weighted_sum")
    /\ \A k \in DOMAIN InputsOfCall :
         InputsOfCall[k].normalization = Normalization_NONE ) =>
    \A i \in 1..args.call.N :
      SumOf(i).WS =
        SumSeq([k \in DOMAIN InputsOfCall |->
                  SumSeq([ci \in 1..SumOf(i).D.nc_ADI |->
                            SumOf(i).i_pres[ci] * InputsOfCall[k].coefficients[ci]])])

\* the zone radii of the call args of zone_index, ascending
RadiiOfCall == IF "rS" \in DOMAIN args.kw THEN args.kw.rS ELSE <<>>

\* C26: the radial index of a neighbour is the smallest k whose radius
\* rS[k] exceeds the distance, or nR-1 if none does, and the cell ri*nSa +
\* ai is inside the zone grid of the group, [0, nR*nSa), and inside the
\* histogram of the thread.
C26_ZoneIndexInGrid ==
  Returned("zone_index") =>
    /\ result.value.nR = Len(RadiiOfCall) + 1
    /\ \A k \in 1..Len(RadiiOfCall) :
         (result.value.ri = k - 1) <=>
           /\ Norm2(args.z) < Sq(RadiiOfCall[k])
           /\ \A m \in 1..(k - 1) : Norm2(args.z) >= Sq(RadiiOfCall[m])
    /\ (result.value.ri = result.value.nR - 1) <=>
         \A m \in 1..Len(RadiiOfCall) : Norm2(args.z) >= Sq(RadiiOfCall[m])
    /\ 0 <= result.value.ig
    /\ result.value.ig < result.value.nR * result.value.nSa
    /\ result.value.ig < result.value.m_nCad

\* the keyword arguments the group under test was registered with
KwOfCall == args.kws[args.gid + 1]

\* C27: whatever the groups registered before and after a RIPO group and
\* whatever the perception kinds of its inputs, the kernel decodes from the
\* group's row what param_RIPO serialised: nR, nSa, the radii, rmax, the
\* numbers of inputs and outputs, the kind, mode and coefficients of each
\* input and the pair of each output.
C27_DecodeRecoversRow ==
  Returned("kernel_decode") =>
    /\ result.value.D.nR = kw_nR(KwOfCall)
    /\ result.value.D.nSa = kw_nSa(KwOfCall)
    /\ result.value.D.rS = kw_rS(KwOfCall)
    /\ result.value.D.rmax = (IF "rmax" \in DOMAIN KwOfCall THEN <<KwOfCall.rmax>> ELSE <<>>)
    /\ result.value.D.nIs = Len(KwOfCall.inputs)
    /\ result.value.D.nOut = Len(KwOfCall.outputs)
    /\ result.value.inputs = KwOfCall.inputs
    /\ result.value.outputs = KwOfCall.outputs

\* the limits of the speed of the agent of a kernel_update call: aparam's
\* vmin and vmax as add_group registered them
LimitsOfCall == group_aparam(args.call.N, args.call.kw)[1]

\* C29: the speed published for a mobile agent after a step is within
\* [vmin, vmax], whatever the initial speed, the limits and the speed noise.
C29_SpeedWithinLimits ==
  Returned("kernel_update") =>
    /\ LimitsOfCall[1] <= result.value[3]
    /\ result.value[3] <= LimitsOfCall[2]

=============================================================================
